---- MODULE Spec2Model ----
(***************************************************************************)
(* Annotation / point-cloud persistence service.                           *)
(*                                                                         *)
(* Two backend variants are modelled side by side:                         *)
(*   - the networked Lambda handler over two DynamoDB tables               *)
(*     (backend/src/index.js), and                                         *)
(*   - the local Express server over one lowdb JSON file                   *)
(*     (the local development server).                                     *)
(*                                                                         *)
(* JavaScript values are tagged records; strings are sequences of Unicode  *)
(* code points, so that byte lengths and the UUID pattern are computed.    *)
(***************************************************************************)
EXTENDS Integers, Sequences, FiniteSets, TLC

VARIABLES
  annTable,   \* networked: annotations table, key (id string) -> item
  pcTable,    \* networked: point clouds table, key (id string) -> item
  dbFile,     \* local: annotations array stored in db.json
  dbData,     \* local: db.data.annotations, the shared in-memory copy
  issued,     \* number of identifiers randomUUID() has produced so far
  clock,      \* current time (new Date()), in ticks
  req,        \* history: the last request served
  respNet,    \* history: the networked variant's response to it
  respLoc,    \* history: the local variant's response to it
  netReqs,    \* networked, concurrent: the invocations, in order of arrival
  locReqs,    \* local, concurrent: the requests, in order of arrival
  wCur,       \* local: the write db.write() is performing (at most one)
  wNext,      \* local: the write waiting behind it (latest data wins)
  gone,       \* history: per store, the ids a DELETE answered 204 removed
  born,       \* history: id -> the createdAt a POST answered 201 gave it
  updated,    \* history: per store, the ids a PUT answered 200 has updated
  fault,      \* history: the storage fault injected into the last request
  inputs,     \* what the clients of this run may send (fixed by Init)
  proc,       \* networked: the Lambda process: its environment and its module
  client      \* the browser client: its modal, its annotation map, its calls

vars == <<annTable, pcTable, dbFile, dbData, issued, clock, req, respNet,
          respLoc, netReqs, locReqs, wCur, wNext, gone, born, updated,
                 fault, inputs, proc, client>>

-----------------------------------------------------------------------------
(* Bounds of the model *)

MaxUuids == 3       \* identifiers randomUUID() may produce in one run
MaxClock == 4       \* requests served (and clock ticks) in a sequential run
MaxValClock == 2    \* the same, in the runs that explore validation inputs
MaxNetRequests == 3 \* invocations of the Lambda in a concurrent run
MaxLocRequests == 3 \* requests to the local server in a concurrent run
MaxPcClock == 2     \* requests served in the runs that explore point clouds
MaxRouteClock == 3  \* requests served in the runs that explore the routing
MaxFaultClock == 3  \* requests served in the runs with storage faults
MaxRefClock == 4    \* requests served in the runs with references between stores
MaxStartClock == 2  \* requests served in the runs that start the Lambda
MaxClientClock == 2 \* clicks on Save in the runs of the browser client
MaxAsyncClock == 2  \* clicks on Save in the runs with requests in flight

(* Program constant *)
MAX_TEXT_BYTES == 256
CONFIG_MAX_TEXT_BYTES == 256   \* CONFIG.MAX_TEXT_BYTES of the browser client

-----------------------------------------------------------------------------
(* JavaScript values *)

Undef == [t |-> "undefined"]
Null == [t |-> "null"]
Num(n) == [t |-> "number", n |-> n]
Str(s) == [t |-> "string", s |-> s]
Date(n) == [t |-> "date", n |-> n]
Arr(items) == [t |-> "array", items |-> items]

\* !v is FALSE
Truthy(v) ==
  CASE v.t = "undefined" -> FALSE
    [] v.t = "null" -> FALSE
    [] v.t = "number" -> v.n # 0
    [] v.t = "string" -> v.s # <<>>
    [] OTHER -> TRUE

\* a || b
Or(a, b) == IF Truthy(a) THEN a ELSE b

\* typeof v
TypeOf(v) == IF v.t \in {"null", "array", "date"} THEN "object" ELSE v.t

\* v.f throws a TypeError
ReadThrows(v) == v.t \in {"undefined", "null"}

\* v.f, for a v on which the read does not throw
Get(v, f) == IF v.t = "object" /\ f \in DOMAIN v THEN v[f] ELSE Undef

-----------------------------------------------------------------------------
(* Strings *)

Rep(c, n) == [i \in 1..n |-> c]

\* The number of bytes of the UTF-8 encoding of one code point.
Utf8Bytes(c) ==
  IF c < 128 THEN 1 ELSE IF c < 2048 THEN 2 ELSE IF c < 65536 THEN 3 ELSE 4

RECURSIVE bytesBetween(_, _, _)
\* The bytes of the UTF-8 encoding of s[lo..hi], summed by halves
bytesBetween(s, lo, hi) ==
  IF lo > hi THEN 0
  ELSE IF lo = hi THEN Utf8Bytes(s[lo])
  ELSE bytesBetween(s, lo, (lo + hi) \div 2) + bytesBetween(s, (lo + hi) \div 2 + 1, hi)

\* Buffer.byteLength(s, 'utf8'), s a string
byteLength(s) == bytesBetween(s, 1, Len(s))

IsHexDigit(c) == (c >= 48 /\ c <= 57) \/ (c >= 97 /\ c <= 102) \/ (c >= 65 /\ c <= 70)

HyphenAt == {9, 14, 19, 24}

\* UUID_REGEX.test(s): 8-4-4-4-12 hexadecimal digits, anchored, case-insensitive
UUID_REGEX_test_noAnchor(s) ==
  /\ Len(s) >= 36
  /\ \A i \in 1..36 : IF i \in HyphenAt THEN s[i] = 45 ELSE IsHexDigit(s[i])

UUID_REGEX_test(s) ==
  /\ Len(s) = 36
  /\ \A i \in 1..36 : IF i \in HyphenAt THEN s[i] = 45 ELSE IsHexDigit(s[i])

\* The string of UUID shape all of whose digits are the character c.
UuidOf(c) == [i \in 1..36 |-> IF i \in HyphenAt THEN 45 ELSE c]

\* The k-th identifier randomUUID() produces: "11111111-1111-...", "2222...".
\* Distinct calls give distinct identifiers, and none a client made up.
randomUUID(k) == UuidOf(48 + k)

-----------------------------------------------------------------------------
(* Request bodies and JSON *)

\* A raw request body: no body at all, text that is not JSON, or the JSON
\* text of a value.
NoBody == [kind |-> "absent"]
BadJson == [kind |-> "text"]
JsonBody(v) == [kind |-> "json", value |-> v]

\* A JSON.parse that gives undefined for a text it cannot parse.
JSON_parse_lenient(body) ==
  IF body.kind = "json" THEN [ok |-> TRUE, value |-> body.value]
  ELSE [ok |-> TRUE, value |-> Undef]

\* JSON.parse(body): ok is FALSE when it throws a SyntaxError
JSON_parse(body) ==
  IF body.kind = "json" THEN [ok |-> TRUE, value |-> body.value]
  ELSE [ok |-> FALSE, value |-> Undef]

\* JSON.stringify(v): the JSON text of v (a non-empty text, "null" for null)
JSON_stringify(v) == [t |-> "jsontext", value |-> v]

\* An empty response body
EmptyBody == [t |-> "empty"]

ErrorBody(msg) == [t |-> "object", error |-> msg]

-----------------------------------------------------------------------------
(* The networked variant: Lambda handler over DynamoDB *)

\* process.env: the two table names
Env(annotationsTable, pointCloudsTable) ==
  [ANNOTATIONS_TABLE |-> annotationsTable, POINT_CLOUDS_TABLE |-> pointCloudsTable]

\* A module initialisation that validates the first name only.
moduleInit_firstOnly(env) ==
  IF ~Truthy(env.ANNOTATIONS_TABLE)
  THEN [module |-> "failed", TABLE_NAME |-> Undef, POINT_CLOUDS_TABLE |-> Undef]
  ELSE [module |-> "loaded", TABLE_NAME |-> env.ANNOTATIONS_TABLE,
        POINT_CLOUDS_TABLE |-> env.POINT_CLOUDS_TABLE]

\* The top level of the module (lines 11-22): it throws, and the module
\* fails to load, when a name is not set; else the constants are bound and
\* handler is exported.
moduleInit(env) ==
  IF ~Truthy(env.ANNOTATIONS_TABLE)
  THEN [module |-> "failed", TABLE_NAME |-> Undef, POINT_CLOUDS_TABLE |-> Undef]
  ELSE IF ~Truthy(env.POINT_CLOUDS_TABLE)
  THEN [module |-> "failed", TABLE_NAME |-> Undef, POINT_CLOUDS_TABLE |-> Undef]
  ELSE [module |-> "loaded", TABLE_NAME |-> env.ANNOTATIONS_TABLE,
        POINT_CLOUDS_TABLE |-> env.POINT_CLOUDS_TABLE]

\* A process: its environment, and its module as moduleInit left it
\* ("cold" before the module is loaded).
Process(env, m) ==
  [env |-> env, module |-> m.module, TABLE_NAME |-> m.TABLE_NAME,
   POINT_CLOUDS_TABLE |-> m.POINT_CLOUDS_TABLE]

Cold == [module |-> "cold", TABLE_NAME |-> Undef, POINT_CLOUDS_TABLE |-> Undef]

CorsHeaders ==
  [ContentType |-> "application/json",
   AccessControlAllowOrigin |-> "*",
   AccessControlAllowHeaders |-> "Content-Type,Authorization",
   AccessControlAllowMethods |-> "GET,POST,PUT,DELETE,OPTIONS"]

response(statusCode, body) ==
  [statusCode |-> statusCode, headers |-> CorsHeaders, body |-> JSON_stringify(body)]

\* A storage call can fail: env.fault names the error the call numbered
\* env.failAt of the request throws, NoFault when every call succeeds.
NoFault == "none"
Fails(env, call) == env.fault # NoFault /\ env.failAt = call

\* The outcome of a handler function: the response it returns (or threw), the
\* tables afterwards and the storage commands it sent.
Ret(resp, ann, pc, ops) ==
  [threw |-> FALSE, resp |-> resp, ann |-> ann, pc |-> pc, ops |-> ops]
Thrown(ann, pc, ops) ==
  [threw |-> TRUE, resp |-> Null, ann |-> ann, pc |-> pc, ops |-> ops]

\* DynamoDB ScanCommand without a filter: every item
DdbScan(table) == {table[k] : k \in DOMAIN table}

\* DynamoDB ScanCommand with FilterExpression 'pointCloudId = :pcId': an item
\* without the attribute, or with a value of another type, does not match
DdbScanFilter(table, pcId) ==
  {table[k] : k \in {j \in DOMAIN table : table[j].pointCloudId = pcId}}

\* DynamoDB PutCommand: unconditional insert or replace
DdbPut(table, item) ==
  [k \in DOMAIN table \cup {item.id.s} |-> IF k = item.id.s THEN item ELSE table[k]]

\* An update that replaces the item by its key and the attributes set.
DdbUpdate_replace(table, id, text, updatedAt) ==
  LET new == [t |-> "object", id |-> Str(id), pointCloudId |-> Undef,
              position |-> Undef, text |-> text, cameraPosition |-> Undef,
              cameraTarget |-> Undef, createdAt |-> Undef, updatedAt |-> updatedAt]
  IN [k \in DOMAIN table \cup {id} |-> IF k = id THEN new ELSE table[k]]

\* DynamoDB UpdateCommand 'SET #text = :text, updatedAt = :updatedAt' with
\* no ConditionExpression: an item that does not exist is created from the
\* key and the attributes set
DdbUpdate(table, id, text, updatedAt) ==
  LET old == IF id \in DOMAIN table THEN table[id]
             ELSE [t |-> "object", id |-> Str(id), pointCloudId |-> Undef,
                   position |-> Undef, text |-> Undef, cameraPosition |-> Undef,
                   cameraTarget |-> Undef, createdAt |-> Undef, updatedAt |-> Undef]
      new == [old EXCEPT !.text = text, !.updatedAt = updatedAt]
  IN [k \in DOMAIN table \cup {id} |-> IF k = id THEN new ELSE table[k]]

\* DynamoDB DeleteCommand
DdbDelete(table, id) == [k \in DOMAIN table \ {id} |-> table[k]]

\* A getAnnotations that sends the filtered scan whatever its argument.
getAnnotations_filterAlways(pointCloudId, ann, pc, env) ==
  IF Fails(env, 1) THEN Thrown(ann, pc, <<"Scan">>)
  ELSE Ret(response(200, Arr(DdbScanFilter(ann, pointCloudId))), ann, pc, <<"Scan">>)

\* getAnnotations(pointCloudId)
getAnnotations(pointCloudId, ann, pc, env) ==
  IF Fails(env, 1) THEN Thrown(ann, pc, <<"Scan">>)
  ELSE LET Items == IF Truthy(pointCloudId) THEN DdbScanFilter(ann, pointCloudId)
                    ELSE DdbScan(ann)
       IN Ret(response(200, Arr(Items)), ann, pc, <<"Scan">>)

\* A createAnnotation that stamps updatedAt with the creation time.
newAnnotation_withUpdatedAt(data, text, env) ==
  [t |-> "object",
   id |-> Str(env.uuid),
   pointCloudId |-> Or(Get(data, "pointCloudId"), Null),
   position |-> [t |-> "object",
                 x |-> Get(Get(data, "position"), "x"),
                 y |-> Get(Get(data, "position"), "y"),
                 z |-> Get(Get(data, "position"), "z")],
   text |-> text,
   cameraPosition |-> Or(Get(data, "cameraPosition"), Null),
   cameraTarget |-> Or(Get(data, "cameraTarget"), Null),
   createdAt |-> Date(env.now),
   updatedAt |-> Date(env.now)]

\* The annotation createAnnotation builds (lines 85-97)
newAnnotation(data, text, env) ==
  [t |-> "object",
   id |-> Str(env.uuid),
   pointCloudId |-> Or(Get(data, "pointCloudId"), Null),
   position |-> [t |-> "object",
                 x |-> Get(Get(data, "position"), "x"),
                 y |-> Get(Get(data, "position"), "y"),
                 z |-> Get(Get(data, "position"), "z")],
   text |-> text,
   cameraPosition |-> Or(Get(data, "cameraPosition"), Null),
   cameraTarget |-> Or(Get(data, "cameraTarget"), Null),
   createdAt |-> Date(env.now),
   updatedAt |-> Undef]

\* The position check of createAnnotation (lines 72-75), data readable
positionInvalid(position) ==
  \/ ~Truthy(position)
  \/ TypeOf(Get(position, "x")) # "number"
  \/ TypeOf(Get(position, "y")) # "number"
  \/ TypeOf(Get(position, "z")) # "number"

\* createAnnotation with the length check after the write
createAnnotation_writeFirst(body, ann, pc, env) ==
  LET p == JSON_parse(body)
      data == p.value
      text == Or(Get(data, "text"), Str(<<>>))
  IN IF ~p.ok THEN Ret(response(400, ErrorBody("Invalid JSON body")), ann, pc, <<>>)
     ELSE IF ReadThrows(data) THEN Thrown(ann, pc, <<>>)
     ELSE IF positionInvalid(Get(data, "position"))
     THEN Ret(response(400, ErrorBody("Invalid position coordinates")), ann, pc, <<>>)
     ELSE IF text.t # "string" THEN Thrown(ann, pc, <<>>)
     ELSE IF byteLength(text.s) > MAX_TEXT_BYTES
     THEN Ret(response(400, ErrorBody("Text exceeds 256 bytes limit")),
              DdbPut(ann, newAnnotation(data, text, env)), pc, <<"Put">>)
     ELSE Ret(response(201, newAnnotation(data, text, env)),
              DdbPut(ann, newAnnotation(data, text, env)), pc, <<"Put">>)

\* createAnnotation taking the identifier from the payload when it has one
createAnnotation_clientId(body, ann, pc, env) ==
  LET p == JSON_parse(body)
      data == p.value
      text == Or(Get(data, "text"), Str(<<>>))
      given == Get(data, "id")
      annotation == IF given.t = "string"
                    THEN [newAnnotation(data, text, env) EXCEPT !.id = given]
                    ELSE newAnnotation(data, text, env)
  IN IF ~p.ok THEN Ret(response(400, ErrorBody("Invalid JSON body")), ann, pc, <<>>)
     ELSE IF ReadThrows(data) THEN Thrown(ann, pc, <<>>)
     ELSE IF positionInvalid(Get(data, "position"))
     THEN Ret(response(400, ErrorBody("Invalid position coordinates")), ann, pc, <<>>)
     ELSE IF text.t # "string" THEN Thrown(ann, pc, <<>>)
     ELSE IF byteLength(text.s) > MAX_TEXT_BYTES
     THEN Ret(response(400, ErrorBody("Text exceeds 256 bytes limit")), ann, pc, <<>>)
     ELSE IF Fails(env, 1) THEN Thrown(ann, pc, <<"Put">>)
     ELSE Ret(response(201, annotation), DdbPut(ann, annotation), pc, <<"Put">>)

\* createAnnotation counting characters (text.length) instead of bytes
createAnnotation_charCount(body, ann, pc, env) ==
  LET p == JSON_parse(body)
      data == p.value
      text == Or(Get(data, "text"), Str(<<>>))
      annotation == newAnnotation(data, text, env)
  IN IF ~p.ok THEN Ret(response(400, ErrorBody("Invalid JSON body")), ann, pc, <<>>)
     ELSE IF ReadThrows(data) THEN Thrown(ann, pc, <<>>)
     ELSE IF positionInvalid(Get(data, "position"))
     THEN Ret(response(400, ErrorBody("Invalid position coordinates")), ann, pc, <<>>)
     ELSE IF text.t # "string" THEN Thrown(ann, pc, <<>>)
     ELSE IF Len(text.s) > MAX_TEXT_BYTES
     THEN Ret(response(400, ErrorBody("Text exceeds 256 bytes limit")), ann, pc, <<>>)
     ELSE IF Fails(env, 1) THEN Thrown(ann, pc, <<"Put">>)
     ELSE Ret(response(201, annotation), DdbPut(ann, annotation), pc, <<"Put">>)

\* createAnnotation(body)
createAnnotation(body, ann, pc, env) ==
  LET p == JSON_parse(body)
      data == p.value
      text == Or(Get(data, "text"), Str(<<>>))
      annotation == newAnnotation(data, text, env)
  IN IF ~p.ok THEN Ret(response(400, ErrorBody("Invalid JSON body")), ann, pc, <<>>)
     ELSE IF ReadThrows(data) THEN Thrown(ann, pc, <<>>)
     ELSE IF positionInvalid(Get(data, "position"))
     THEN Ret(response(400, ErrorBody("Invalid position coordinates")), ann, pc, <<>>)
     ELSE IF text.t # "string" THEN Thrown(ann, pc, <<>>)
     ELSE IF byteLength(text.s) > MAX_TEXT_BYTES
     THEN Ret(response(400, ErrorBody("Text exceeds 256 bytes limit")), ann, pc, <<>>)
     ELSE IF Fails(env, 1) THEN Thrown(ann, pc, <<"Put">>)
     ELSE Ret(response(201, annotation), DdbPut(ann, annotation), pc, <<"Put">>)

\* updateAnnotation(id, body)
updateAnnotation(id, body, ann, pc, env) ==
  LET p == JSON_parse(body)
      data == p.value
      text == Get(data, "text")
      new == DdbUpdate(ann, id, Or(text, Str(<<>>)), Date(env.now))
  IN IF ~p.ok THEN Ret(response(400, ErrorBody("Invalid JSON body")), ann, pc, <<>>)
     ELSE IF ReadThrows(data) THEN Thrown(ann, pc, <<>>)
     ELSE IF Truthy(text) /\ text.t # "string" THEN Thrown(ann, pc, <<>>)
     ELSE IF Truthy(text) /\ byteLength(text.s) > MAX_TEXT_BYTES
     THEN Ret(response(400, ErrorBody("Text exceeds 256 bytes limit")), ann, pc, <<>>)
     ELSE IF Fails(env, 1)
     THEN IF env.fault = "ConditionalCheckFailedException"
          THEN Ret(response(404, ErrorBody("Annotation not found")), ann, pc, <<"Update">>)
          ELSE Thrown(ann, pc, <<"Update">>)
     ELSE Ret(response(200, new[id]), new, pc, <<"Update">>)

\* deleteAnnotation(id): ConditionExpression 'attribute_exists(id)'
deleteAnnotation(id, ann, pc, env) ==
  IF Fails(env, 1) /\ env.fault # "ConditionalCheckFailedException"
  THEN Thrown(ann, pc, <<"Delete">>)
  ELSE IF id \notin DOMAIN ann \/ Fails(env, 1)
  THEN Ret(response(404, ErrorBody("Annotation not found")), ann, pc, <<"Delete">>)
  ELSE Ret(response(204, Null), DdbDelete(ann, id), pc, <<"Delete">>)

-----------------------------------------------------------------------------
(* Point clouds (networked variant only) *)

\* The code points String.prototype.trim removes: WhiteSpace and
\* LineTerminator of ECMAScript
WhiteSpace ==
  {9, 10, 11, 12, 13, 32, 160, 5760, 8232, 8233, 8239, 8287, 12288, 65279}
    \cup (8192..8202)

IsSpace(c) == c \in WhiteSpace

RECURSIVE trimStart(_)
trimStart(s) ==
  IF s # <<>> /\ IsSpace(Head(s)) THEN trimStart(Tail(s)) ELSE s

RECURSIVE trimEnd(_)
trimEnd(s) ==
  IF s # <<>> /\ IsSpace(s[Len(s)]) THEN trimEnd(SubSeq(s, 1, Len(s) - 1)) ELSE s

\* String.prototype.trim
trim(s) == trimEnd(trimStart(s))

\* s.endsWith('/')
endsWithSlash(s) == s # <<>> /\ s[Len(s)] = 47

\* Lines 197-201: trim, then ensure the trailing slash
normalizePath_noTrim(s) ==
  IF endsWithSlash(s) THEN s ELSE s \o <<47>>

normalizePath(s) ==
  IF endsWithSlash(trim(s)) THEN trim(s) ELSE trim(s) \o <<47>>

\* getPointClouds()
getPointClouds(ann, pc, env) ==
  IF Fails(env, 1) THEN Thrown(ann, pc, <<"Scan">>)
  ELSE Ret(response(200, Arr(DdbScan(pc))), ann, pc, <<"Scan">>)

\* createPointCloud(body)
createPointCloud(body, ann, pc, env) ==
  LET p == JSON_parse(body)
      data == p.value
      name == Get(data, "name")
      path == Get(data, "path")
      pointCloud == [t |-> "object",
                     id |-> Str(env.uuid),
                     name |-> Str(trim(name.s)),
                     path |-> Str(normalizePath(path.s)),
                     createdAt |-> Date(env.now)]
  IN IF ~p.ok THEN Ret(response(400, ErrorBody("Invalid JSON body")), ann, pc, <<>>)
     ELSE IF ReadThrows(data) THEN Thrown(ann, pc, <<>>)
     ELSE IF ~Truthy(name) \/ TypeOf(name) # "string"
     THEN Ret(response(400, ErrorBody("Name is required")), ann, pc, <<>>)
     ELSE IF ~Truthy(path) \/ TypeOf(path) # "string"
     THEN Ret(response(400, ErrorBody("Path is required")), ann, pc, <<>>)
     ELSE IF Fails(env, 1) THEN Thrown(ann, pc, <<"Put">>)
     ELSE Ret(response(201, pointCloud), ann, DdbPut(pc, pointCloud), <<"Put">>)

\* A deletePointCloud that also deletes the annotations of the point cloud.
deletePointCloud_cascade(id, ann, pc, env) ==
  IF id \notin DOMAIN pc
  THEN Ret(response(404, ErrorBody("Point cloud not found")), ann, pc, <<"Delete">>)
  ELSE Ret(response(204, Null),
           [k \in {j \in DOMAIN ann : ann[j].pointCloudId # Str(id)} |-> ann[k]],
           DdbDelete(pc, id), <<"Delete">>)

\* deletePointCloud(id): ConditionExpression 'attribute_exists(id)'
deletePointCloud(id, ann, pc, env) ==
  IF Fails(env, 1) /\ env.fault # "ConditionalCheckFailedException"
  THEN Thrown(ann, pc, <<"Delete">>)
  ELSE IF id \notin DOMAIN pc \/ Fails(env, 1)
  THEN Ret(response(404, ErrorBody("Point cloud not found")), ann, pc, <<"Delete">>)
  ELSE Ret(response(204, Null), ann, DdbDelete(pc, id), <<"Delete">>)

-----------------------------------------------------------------------------
(* The Lambda handler *)

\* A route key "METHOD /seg/seg" is held as its method and the segments of
\* its path; an absent one has the empty method and no segments.
RouteKey(method, path) == [method |-> method, path |-> path]
NoRouteKey == RouteKey("", <<>>)

\* An event: routeKey, requestContext.http, pathParameters.id,
\* queryStringParameters.pointCloudId and body.
Event(routeKey, http, id, pointCloudId, body) ==
  [routeKey |-> routeKey, http |-> http, id |-> id,
   pointCloudId |-> pointCloudId, body |-> body]

\* routeKey === '<method> /<seg>'
routeIs(rk, method, seg) == rk.method = method /\ rk.path = <<seg>>

\* routeKey.startsWith('<method> /<seg>/')
routeStartsWith(rk, method, seg) ==
  rk.method = method /\ Len(rk.path) >= 2 /\ rk.path[1] = seg

\* The identifier checks of lines 263-269 and their like: the error response,
\* or Null when the identifier passes
idCheck(id, required, invalid) ==
  IF ~Truthy(id) THEN response(400, ErrorBody(required))
  ELSE IF ~UUID_REGEX_test(id.s) THEN response(400, ErrorBody(invalid))
  ELSE Null

\* The try block of handler (lines 252-305)
dispatch(event, ann, pc, env) ==
  LET rk == event.routeKey
      route == RouteKey(IF rk.method # "" THEN rk.method ELSE event.http.method,
                        IF rk.path # <<>> THEN rk.path ELSE event.http.path)
      Is(m, seg) == routeIs(rk, m, seg) \/ routeIs(route, m, seg)
      Starts(m, seg) == routeStartsWith(rk, m, seg) \/ routeStartsWith(route, m, seg)
      id == event.id
      annCheck == idCheck(id, "Annotation ID required", "Invalid annotation ID format")
      pcCheck == idCheck(id, "Point cloud ID required", "Invalid point cloud ID format")
  IN IF Is("GET", "annotations")
     THEN getAnnotations(Or(event.pointCloudId, Null), ann, pc, env)
     ELSE IF Is("POST", "annotations") THEN createAnnotation(event.body, ann, pc, env)
     ELSE IF Starts("PUT", "annotations")
     THEN IF annCheck # Null THEN Ret(annCheck, ann, pc, <<>>)
          ELSE updateAnnotation(id.s, event.body, ann, pc, env)
     ELSE IF Starts("DELETE", "annotations")
     THEN IF annCheck # Null THEN Ret(annCheck, ann, pc, <<>>)
          ELSE deleteAnnotation(id.s, ann, pc, env)
     ELSE IF Is("GET", "pointclouds") THEN getPointClouds(ann, pc, env)
     ELSE IF Is("POST", "pointclouds") THEN createPointCloud(event.body, ann, pc, env)
     ELSE IF Starts("DELETE", "pointclouds")
     THEN IF pcCheck # Null THEN Ret(pcCheck, ann, pc, <<>>)
          ELSE deletePointCloud(id.s, ann, pc, env)
     ELSE Ret(response(404, ErrorBody("Not found")), ann, pc, <<>>)

\* A handler whose catch answers without the headers of response().
handler_bareError(event, ann, pc, env) ==
  LET r == dispatch(event, ann, pc, env)
  IN IF r.threw
     THEN Ret([statusCode |-> 500, headers |-> Undef,
               body |-> JSON_stringify(ErrorBody("Internal server error"))],
              r.ann, r.pc, r.ops)
     ELSE r

\* A handler whose catch puts the name of the error in the body.
handler_faultDetail(event, ann, pc, env) ==
  LET r == dispatch(event, ann, pc, env)
  IN IF r.threw
     THEN Ret(response(500, ErrorBody(env.fault)), r.ann, r.pc, r.ops)
     ELSE r

\* handler(event): the catch of lines 306-309 turns a throw into a 500
handler(event, ann, pc, env) ==
  LET r == dispatch(event, ann, pc, env)
  IN IF r.threw
     THEN Ret(response(500, ErrorBody("Internal server error")), r.ann, r.pc, r.ops)
     ELSE r

-----------------------------------------------------------------------------
(* The local variant: Express server over a lowdb JSON file *)

\* res.status(statusCode).json(body)
resJson(statusCode, body) == [statusCode |-> statusCode, body |-> JSON_stringify(body)]

\* res.status(statusCode).send()
resSend(statusCode) == [statusCode |-> statusCode, body |-> EmptyBody]

EmptyObject == [t |-> "object"]

\* express.json() (line 26): ok is FALSE when the middleware answers 400
\* itself (text that is not JSON, or JSON that is neither object nor array);
\* a request without a body gets the empty object
expressJson(body) ==
  IF body.kind = "absent" THEN [ok |-> TRUE, value |-> EmptyObject]
  ELSE IF body.kind = "json" /\ body.value.t \in {"object", "array"}
  THEN [ok |-> TRUE, value |-> body.value]
  ELSE [ok |-> FALSE, value |-> Undef]

\* db.data.annotations.findIndex(a => a.id === id), 0 for -1
findIndex(data, id) ==
  IF \E i \in 1..Len(data) : data[i].id = Str(id)
  THEN CHOOSE i \in 1..Len(data) :
         data[i].id = Str(id) /\ \A j \in 1..(i - 1) : data[j].id # Str(id)
  ELSE 0

\* A step of a local handler: done with a response, or going on to the next
\* await with the values it holds.
Done(resp) == [done |-> TRUE, resp |-> resp]
Going(fields) == [done |-> FALSE, held |-> fields]

\* app.post('/annotations'), lines 52-78: up to the await of db.read()
post1(body, env) ==
  LET position == Get(body, "position")
      textValue == Or(Get(body, "text"), Str(<<>>))
      annotation == [t |-> "object",
                     id |-> Str(env.uuid),
                     pointCloudId |-> Undef,
                     position |-> [t |-> "object",
                                   x |-> Get(position, "x"),
                                   y |-> Get(position, "y"),
                                   z |-> Get(position, "z")],
                     text |-> textValue,
                     cameraPosition |-> Or(Get(body, "cameraPosition"), Null),
                     cameraTarget |-> Or(Get(body, "cameraTarget"), Null),
                     createdAt |-> Date(env.now),
                     updatedAt |-> Undef]
  IN IF positionInvalid(position)
     THEN Done(resJson(400, ErrorBody("Invalid position coordinates")))
     ELSE IF textValue.t # "string"
     THEN Done(resJson(500, ErrorBody("Failed to create annotation")))
     ELSE IF byteLength(textValue.s) > MAX_TEXT_BYTES
     THEN Done(resJson(400, ErrorBody("Text exceeds 256 bytes limit")))
     ELSE Going([annotation |-> annotation])

\* lines 80-82: db.data after the push, as handed to db.write()
post2(held, data) == Going([annotation |-> held.annotation,
                            data |-> Append(data, held.annotation)])

\* line 84
post3(held, data) == resJson(201, held.annotation)

\* app.put('/annotations/:id'), lines 94-105: up to the await of db.read()
put1(id, body) ==
  LET text == Get(body, "text")
  IN IF ~UUID_REGEX_test(id)
     THEN Done(resJson(400, ErrorBody("Invalid annotation ID format")))
     ELSE IF Truthy(text) /\ text.t # "string"
     THEN Done(resJson(500, ErrorBody("Failed to update annotation")))
     ELSE IF Truthy(text) /\ byteLength(text.s) > MAX_TEXT_BYTES
     THEN Done(resJson(400, ErrorBody("Text exceeds 256 bytes limit")))
     ELSE Going([id |-> id, text |-> text])

\* lines 108-120: from the read to the call of db.write()
put2(held, data, now) ==
  LET index == findIndex(data, held.id)
      old == data[index]
      new == [old EXCEPT !.text = IF held.text # Undef THEN held.text ELSE old.text,
                         !.updatedAt = Date(now)]
  IN IF index = 0 THEN Done(resJson(404, ErrorBody("Annotation not found")))
     ELSE Going([index |-> index, data |-> [data EXCEPT ![index] = new]])

\* line 121: res.json(db.data.annotations[index]), on the shared db.data
put3(held, data) ==
  resJson(200, IF held.index <= Len(data) THEN data[held.index] ELSE Undef)

\* app.delete('/annotations/:id'), lines 131-136
delete1(id) ==
  IF ~UUID_REGEX_test(id)
  THEN Done(resJson(400, ErrorBody("Invalid annotation ID format")))
  ELSE Going([id |-> id])

\* lines 139-146: from the read to the call of db.write()
delete2(held, data) ==
  LET index == findIndex(data, held.id)
  IN IF index = 0 THEN Done(resJson(404, ErrorBody("Annotation not found")))
     ELSE Going([data |-> SubSeq(data, 1, index - 1) \o SubSeq(data, index + 1, Len(data))])

\* line 148
delete3(held, data) == resSend(204)

\* The route Express gives a request to: the method and path patterns of
\* lines 40, 51, 92, 129 and 156. '/annotations/' with no identifier is
\* '/annotations' (routing is not strict about a trailing slash).
expressRoute(request) ==
  LET hasId == Truthy(request.id)
      m == request.method
      path == request.path
  IN IF path = <<"annotations">> \/ (path = <<"annotations", "{id}">> /\ ~hasId)
     THEN IF m = "GET" THEN "getAnnotations"
          ELSE IF m = "POST" THEN "postAnnotations" ELSE "none"
     ELSE IF path = <<"annotations", "{id}">>
     THEN IF m = "PUT" THEN "putAnnotation"
          ELSE IF m = "DELETE" THEN "deleteAnnotation" ELSE "none"
     ELSE IF path = <<"health">> /\ m = "GET" THEN "health"
     ELSE "none"

\* The first step of the local server on a request: the middleware, the
\* routing and the handler up to its first await.
local1(request, env) ==
  LET parsed == expressJson(request.body)
      body == parsed.value
      route == expressRoute(request)
  IN IF ~parsed.ok THEN Done(resJson(400, ErrorBody("Bad Request")))
     ELSE IF route = "getAnnotations" THEN Going([route |-> route])
     ELSE IF route = "postAnnotations" THEN post1(body, env)
     ELSE IF route = "putAnnotation" THEN put1(request.id.s, body)
     ELSE IF route = "deleteAnnotation" THEN delete1(request.id.s)
     ELSE IF route = "health" THEN Done(resJson(200, [t |-> "object", status |-> "ok"]))
     ELSE Done(resJson(404, ErrorBody("No route")))

\* The second step: db.read() has given data; up to the next await or the
\* response.
local2(route, held, data, now) ==
  IF route = "getAnnotations" THEN Done(resJson(200, Arr(data)))
  ELSE IF route = "postAnnotations" THEN post2(held, data)
  ELSE IF route = "putAnnotation" THEN put2(held, data, now)
  ELSE delete2(held, data)

\* The third step: db.write() has resolved; data is db.data.annotations now.
local3(route, held, data) ==
  IF route = "postAnnotations" THEN post3(held, data)
  ELSE IF route = "putAnnotation" THEN put3(held, data)
  ELSE delete3(held, data)

\* The catch block of a handler (lines 44-47, 85-88, 122-125, 149-152):
\* db.read() or db.write() threw.
localCatch(route) ==
  resJson(500, ErrorBody(
    IF route = "getAnnotations" THEN "Failed to fetch annotations"
    ELSE IF route = "postAnnotations" THEN "Failed to create annotation"
    ELSE IF route = "putAnnotation" THEN "Failed to update annotation"
    ELSE "Failed to delete annotation"))

\* One request served with no other request in flight: the three steps run
\* back to back on the file; data is db.data.annotations afterwards, given
\* that it was mem before.
localServe(request, file, mem, env) ==
  LET s1 == local1(request, env)
      route == expressRoute(request)
      s2 == local2(route, s1.held, file, env.now)
  IN IF s1.done THEN [resp |-> s1.resp, file |-> file, data |-> mem, ops |-> <<>>]
     ELSE IF Fails(env, 1)
     THEN [resp |-> localCatch(route), file |-> file, data |-> mem, ops |-> <<"read">>]
     ELSE IF s2.done
     THEN [resp |-> s2.resp, file |-> file, data |-> file, ops |-> <<"read">>]
     ELSE IF Fails(env, 2)
     THEN [resp |-> localCatch(route), file |-> file, data |-> s2.held.data,
           ops |-> <<"read", "write">>]
     ELSE [resp |-> local3(route, s2.held, s2.held.data),
           file |-> s2.held.data, data |-> s2.held.data, ops |-> <<"read", "write">>]

-----------------------------------------------------------------------------
(* Requests *)

\* A request as a client sends it: method, path pattern, the identifier in
\* the path, the pointCloudId query parameter and the body.
Request(method, path, id, pointCloudId, body) ==
  [method |-> method, path |-> path, id |-> id,
   pointCloudId |-> pointCloudId, body |-> body]

AnnPath == <<"annotations">>
AnnIdPath == <<"annotations", "{id}">>
PcPath == <<"pointclouds">>
PcIdPath == <<"pointclouds", "{id}">>

IsRoute(request, method, path) == request.method = method /\ request.path = path

\* The event API Gateway hands the Lambda for it.
toEvent(request) ==
  Event(RouteKey(request.method, request.path),
        RouteKey(request.method, request.path),
        request.id, request.pointCloudId, request.body)

Pos(x, y, z) == [t |-> "object", x |-> Num(x), y |-> Num(y), z |-> Num(z)]

ForeignId == UuidOf(97)                      \* "aaaaaaaa-aaaa-...": never issued
UpperId == UuidOf(65)                        \* "AAAAAAAA-AAAA-...": never issued
PcRef == UuidOf(98)                          \* "bbbbbbbb-bbbb-..."
PcOther == UuidOf(99)                        \* "cccccccc-cccc-..."
NotAUuid == <<110, 111, 116, 45, 97, 45, 117, 117, 105, 100>>   \* "not-a-uuid"
TextHi == <<104, 105>>                       \* "hi"
TextYo == <<121, 111>>                       \* "yo"
Text256 == Rep(97, 256)                      \* 256 bytes, 256 characters
Text257 == Rep(97, 257)                      \* 257 bytes, 257 characters
Text254e == Rep(97, 254) \o <<233>>          \* 256 bytes, 255 characters
Text255e == Rep(97, 255) \o <<233>>          \* 257 bytes, 256 characters
Text85euro == Rep(8364, 85)                  \* 255 bytes, 85 characters
Text86euro == Rep(8364, 86)                  \* 258 bytes, 86 characters
Text64emoji == Rep(128512, 64)               \* 256 bytes, 64 code points
Text65emoji == Rep(128512, 65)               \* 260 bytes, 65 code points

\* The identifiers randomUUID() has produced: clients know them from responses.
IssuedIds == {randomUUID(k) : k \in 1..issued}

CreateWith(text) == JsonBody([t |-> "object", position |-> Pos(1, 2, 3), text |-> Str(text)])
UpdateWith(text) == JsonBody([t |-> "object", text |-> Str(text)])

CreateMin == JsonBody([t |-> "object", position |-> Pos(1, 2, 3)])
CreateFull ==
  JsonBody([t |-> "object", id |-> Str(ForeignId), pointCloudId |-> Str(PcRef),
            position |-> Pos(0, -5, 7), text |-> Str(TextHi),
            cameraPosition |-> Pos(9, 9, 9), cameraTarget |-> Pos(0, 0, 0)])
CreateNoPosition == JsonBody([t |-> "object", text |-> Str(TextHi)])
CreateStringCoord ==
  JsonBody([t |-> "object",
            position |-> [t |-> "object", x |-> Str(<<49>>), y |-> Num(2), z |-> Num(3)]])
UpdateNoText == JsonBody(EmptyObject)

PcOk == JsonBody([t |-> "object", name |-> Str(<<65>>), path |-> Str(<<100, 47, 115>>)])
PcNoName == JsonBody([t |-> "object", path |-> Str(<<100, 47, 115>>)])
PcNoPath == JsonBody([t |-> "object", name |-> Str(<<65>>)])

\* The inputs of a run: the identifiers, filters and bodies requests draw
\* from, and the number of requests it serves.
\* What clients send: ids are the identifiers they put in a path besides
\* the issued ones, puts the (id, body) pairs of their PUTs on such ids, and
\* updates the bodies of their PUTs on issued ids.
CoreUpdates == {UpdateNoText, UpdateWith(TextYo), UpdateWith(Text257), BadJson}

CoreInputs ==
  [steps |-> MaxClock,
   ids |-> {Str(ForeignId), Str(NotAUuid), Undef},
   filters |-> {Undef, Str(PcRef)},
   creates |-> {CreateMin, CreateFull, CreateNoPosition, CreateWith(Text257), BadJson},
   updates |-> CoreUpdates,
   puts |-> {Str(ForeignId), Str(NotAUuid), Undef} \X CoreUpdates,
   pointClouds |-> {PcOk, PcNoName, BadJson},
   faults |-> {<<NoFault, 1>>}]

-----------------------------------------------------------------------------
(* The browser client (frontend/app.js): its global state and the elements  *)
(* of the annotation modal.                                                  *)

\* The state after the page is loaded (app.js lines 9-12, modal hidden):
\* USE_LOCAL_API, the modal, isEditMode, currentAnnotation,
\* annotationTextEl.value, the annotations map (keyed by the JavaScript value
\* given to Map.set), the annotation each marker's click listener holds
\* (line 230), the annotation each sidebar item's listeners hold (line 293),
\* the status message, the invocations of saveAnnotation that reached their
\* await, and as history the numbers of clicks on Save and of calls of the
\* API and where the modal was opened from.
Browser(useLocalApi) ==
  [USE_LOCAL_API |-> useLocalApi,
   modal |-> "hidden",
   isEditMode |-> FALSE,
   currentAnnotation |-> Null,
   value |-> <<>>,
   annotations |-> [k \in {} |-> Null],
   markers |-> [k \in {} |-> Null],
   listed |-> [k \in {} |-> Null],
   status |-> "",
   flights |-> <<>>,
   openedFrom |-> "",
   saves |-> 0,
   calls |-> 0]

\* new TextEncoder().encode(text).length
encodedLength(text) == byteLength(text)

\* saveAnnotation, lines 365-371: the text it would send, and whether it
\* returns before calling the API
saveText(value) == trim(value)
saveRefuses_charCount(value) == Len(saveText(value)) > CONFIG_MAX_TEXT_BYTES
saveRefuses(value) == encodedLength(saveText(value)) > CONFIG_MAX_TEXT_BYTES

\* Map.prototype.set
MapSet(map, key, value) ==
  [j \in DOMAIN map \cup {key} |-> IF j = key THEN value ELSE map[j]]

\* closeAnnotationModal, lines 354-359
closed(c) ==
  [c EXCEPT !.modal = "hidden", !.currentAnnotation = Null,
            !.isEditMode = FALSE, !.value = <<>>]

\* addAnnotationToViewer, lines 205-235: the map entry, and the marker whose
\* click listener holds the annotation object it was given
addAnnotationToViewer(c, annotation) ==
  [c EXCEPT !.annotations = MapSet(@, Get(annotation, "id"), annotation),
            !.markers = MapSet(@, Get(annotation, "id"), annotation)]

\* updateAnnotationList, lines 250-306: the items are rebuilt from the values
\* of the map
updateAnnotationList(c) == [c EXCEPT !.listed = c.annotations]

\* saveAnnotation up to its await, lines 365-376 and 391-396: the branch it
\* takes and the request it hands to the API; opening tells whether the
\* modal has been opened again since
saveCall(c) ==
  LET text == saveText(c.value)
      id == Get(c.currentAnnotation, "id")
      edit == c.isEditMode /\ Truthy(id)
  IN [edit |-> edit,
      id |-> IF edit THEN id ELSE Undef,
      text |-> text,
      body |-> IF edit THEN JsonBody([t |-> "object", text |-> Str(text)])
               ELSE JsonBody([t |-> "object",
                              position |-> Get(c.currentAnnotation, "position"),
                              text |-> Str(text),
                              cameraPosition |-> Get(c.currentAnnotation, "cameraPosition"),
                              cameraTarget |-> Get(c.currentAnnotation, "position")]),
      opening |-> "current",
      state |-> "sent",
      ok |-> FALSE,
      answer |-> Undef]

saveBegins(c) ==
  LET clicked == [c EXCEPT !.saves = @ + 1]
  IN IF saveRefuses(c.value)
     THEN [clicked EXCEPT !.status = "Text exceeds 256 bytes limit"]
     ELSE [clicked EXCEPT !.calls = @ + 1, !.flights = Append(@, saveCall(c))]

\* fetch resolves, api.js lines 58-63 and 87-92: response.ok and the body
answered(c, i, resp) ==
  [c EXCEPT !.flights[i].state = "answered",
            !.flights[i].ok = (resp.statusCode >= 200 /\ resp.statusCode <= 299),
            !.flights[i].answer = IF resp.body.t = "jsontext" THEN resp.body.value
                                  ELSE Undef]

\* saveAnnotation after its await, lines 375-408.  The update branch reads
\* the global currentAnnotation again (lines 376 and 384): reading .id of
\* null throws a TypeError, which the catch reports; the spread of an entry
\* the map does not hold gives an object of text and updatedAt only.
saveResumes(c, i) ==
  LET f == c.flights[i]
      done == [c EXCEPT !.flights[i].state = "resumed"]
      failed == [done EXCEPT !.status = "Failed to save"]
  IN IF ~f.ok THEN failed
     ELSE IF f.edit
     THEN IF c.currentAnnotation = Null THEN failed
          ELSE LET key == Get(c.currentAnnotation, "id")
                   existing == IF key \in DOMAIN c.annotations
                               THEN c.annotations[key] ELSE Undef
                   updatedAnnotation ==
                     IF existing = Undef
                     THEN [t |-> "object", text |-> Str(f.text),
                           updatedAt |-> Get(f.answer, "updatedAt")]
                     ELSE [existing EXCEPT !.text = Str(f.text),
                                           !.updatedAt = Get(f.answer, "updatedAt")]
               IN closed(updateAnnotationList(
                    [done EXCEPT !.annotations = MapSet(@, key, updatedAnnotation),
                                 !.status = "Note updated"]))
     ELSE closed(updateAnnotationList(
            [addAnnotationToViewer(done, f.answer) EXCEPT !.status = "Note saved"]))

-----------------------------------------------------------------------------
(* Sequential runs: each request is served by both variants, one request at a
   time, with the same identifier and time given to both. *)

NoRequest == Request("", <<>>, Undef, Undef, NoBody)
NoResponse == [statusCode |-> 0, headers |-> Undef, body |-> EmptyBody, ops |-> <<>>]
EmptyTable == [k \in {} |-> Null]

\* The environment of a deployment: both names set.
DeployedEnv == Env(Str(<<97>>), Str(<<112>>))

\* The state after construction, the Lambda process aside: empty stores;
\* the clients draw from in.
InitStores(in) ==
  /\ annTable = EmptyTable
  /\ pcTable = EmptyTable
  /\ dbFile = <<>>
  /\ dbData = <<>>
  /\ issued = 0
  /\ clock = 0
  /\ req = NoRequest
  /\ respNet = NoResponse
  /\ respLoc = NoResponse
  /\ netReqs = <<>>
  /\ locReqs = <<>>
  /\ wCur = <<>>
  /\ wNext = <<>>
  /\ gone = [ann |-> {}, loc |-> {}, pc |-> {}]
  /\ born = EmptyTable
  /\ updated = [ann |-> {}, loc |-> {}]
  /\ fault = <<NoFault, 1>>
  /\ inputs = in

\* The same with the module of the Lambda loaded in a deployed environment.
InitWith(in) ==
  /\ InitStores(in)
  /\ proc = Process(DeployedEnv, moduleInit(DeployedEnv))
  /\ client = Browser(FALSE)

Init == InitWith(CoreInputs)

\* Both variants serve the request, with the same identifier, time and
\* storage fault given to both.
Exchange(method, path, id, pointCloudId, body) ==
  \E f \in inputs.faults :
    LET request == Request(method, path, id, pointCloudId, body)
        env == [uuid |-> randomUUID(issued + 1), now |-> clock + 1,
                fault |-> f[1], failAt |-> f[2]]
    IN /\ clock < inputs.steps
       /\ proc.module = "loaded"
       /\ method = "POST" => issued < MaxUuids
       /\ \E n \in {handler(toEvent(request), annTable, pcTable, env)},
             l \in {localServe(request, dbFile, dbData, env)} :
            /\ clock' = clock + 1
            /\ issued' = IF n.resp.statusCode = 201 \/ l.resp.statusCode = 201
                         THEN issued + 1 ELSE issued
            /\ annTable' = n.ann
            /\ pcTable' = n.pc
            /\ dbFile' = l.file
            /\ dbData' = l.data
            /\ req' = request
            /\ fault' = f
            /\ respNet' = [statusCode |-> n.resp.statusCode, headers |-> n.resp.headers,
                           body |-> n.resp.body, ops |-> n.ops]
            /\ respLoc' = [statusCode |-> l.resp.statusCode, body |-> l.resp.body,
                           ops |-> l.ops]
            /\ gone' = [ann |-> IF IsRoute(request, "DELETE", AnnIdPath)
                                     /\ n.resp.statusCode = 204
                                THEN gone.ann \cup {id.s} ELSE gone.ann,
                        loc |-> IF IsRoute(request, "DELETE", AnnIdPath)
                                     /\ l.resp.statusCode = 204
                                THEN gone.loc \cup {id.s} ELSE gone.loc,
                        pc |-> IF IsRoute(request, "DELETE", PcIdPath)
                                    /\ n.resp.statusCode = 204
                               THEN gone.pc \cup {id.s} ELSE gone.pc]
            /\ born' = IF IsRoute(request, "POST", AnnPath)
                            /\ (n.resp.statusCode = 201 \/ l.resp.statusCode = 201)
                       THEN [k \in DOMAIN born \cup {env.uuid} |->
                               IF k = env.uuid THEN Date(env.now) ELSE born[k]]
                       ELSE born
            /\ updated' = [ann |-> IF IsRoute(request, "PUT", AnnIdPath)
                                        /\ n.resp.statusCode = 200
                                   THEN updated.ann \cup {id.s} ELSE updated.ann,
                           loc |-> IF IsRoute(request, "PUT", AnnIdPath)
                                        /\ l.resp.statusCode = 200
                                   THEN updated.loc \cup {id.s} ELSE updated.loc]
            /\ UNCHANGED <<netReqs, locReqs, wCur, wNext, inputs, proc>>

\* A request of a client other than the browser client.
Serve(method, path, id, pointCloudId, body) ==
  /\ Exchange(method, path, id, pointCloudId, body)
  /\ UNCHANGED client

\* The identifiers a client may put in a path.
PathIds == inputs.ids \cup {Str(i) : i \in IssuedIds}

GetAnnotations ==
  \E f \in inputs.filters : Serve("GET", AnnPath, Undef, f, NoBody)

PostAnnotation ==
  \E b \in inputs.creates : Serve("POST", AnnPath, Undef, Undef, b)

\* The (id, body) pairs of the PUTs a client may send.
PutPairs == inputs.puts \cup ({Str(i) : i \in IssuedIds} \X inputs.updates)

PutAnnotation ==
  \E p \in PutPairs : Serve("PUT", AnnIdPath, p[1], Undef, p[2])

DeleteAnnotation ==
  \E id \in PathIds : Serve("DELETE", AnnIdPath, id, Undef, NoBody)

GetPointClouds == Serve("GET", PcPath, Undef, Undef, NoBody)

PostPointCloud ==
  \E b \in inputs.pointClouds : Serve("POST", PcPath, Undef, Undef, b)

DeletePointCloud ==
  \E id \in PathIds : Serve("DELETE", PcIdPath, id, Undef, NoBody)

Next ==
  \/ GetAnnotations
  \/ PostAnnotation
  \/ PutAnnotation
  \/ DeleteAnnotation
  \/ GetPointClouds
  \/ PostPointCloud
  \/ DeletePointCloud

Spec == Init /\ [][Next]_vars

-----------------------------------------------------------------------------
(* Runs that explore the validation inputs: few requests, many inputs. *)

BoundaryTexts ==
  {Text256, Text257, Text254e, Text255e, Text85euro, Text86euro, Text64emoji, Text65emoji}

\* Identifiers that are not UUIDs, and no identifier at all.
MalformedIds ==
  {Str(NotAUuid), Undef, Str(<<>>),
   Str(UuidOf(103)),                               \* 'g' for every digit
   Str(SubSeq(ForeignId, 1, 35)),                  \* one digit short
   Str(ForeignId \o <<97>>),                       \* one digit long
   Str(<<97>> \o ForeignId),
   Str(Rep(97, 36)),                               \* no hyphens
   Str([ForeignId EXCEPT ![9] = 97, ![10] = 45])}  \* 9-3-4-4-12

ValUpdates ==
  {UpdateNoText, UpdateWith(<<>>), UpdateWith(TextYo), BadJson, NoBody, JsonBody(Null),
   JsonBody([t |-> "object", text |-> Null])}
    \cup {UpdateWith(x) : x \in BoundaryTexts}

ValInputs ==
  [steps |-> MaxValClock,
   ids |-> {Str(ForeignId), Str(UpperId)} \cup MalformedIds,
   filters |-> {Undef, Str(PcRef), Str(<<>>)},
   creates |-> {CreateMin, CreateFull, CreateNoPosition, CreateStringCoord, BadJson,
                NoBody, JsonBody(Null),
                JsonBody([t |-> "object", position |-> Pos(1, 2, 3), text |-> Num(5)])}
               \cup {CreateWith(x) : x \in BoundaryTexts},
   updates |-> ValUpdates,
   puts |-> (MalformedIds \X {UpdateWith(TextYo), BadJson})
              \cup ({Str(ForeignId)} \X ValUpdates)
              \cup {<<Str(UpperId), UpdateWith(TextYo)>>},
   pointClouds |-> {PcOk, PcNoName, PcNoPath, BadJson, NoBody,
                    JsonBody([t |-> "object", name |-> Num(7), path |-> Str(<<100>>)])},
   faults |-> {<<NoFault, 1>>}]

InitVal == InitWith(ValInputs)

SpecVal == InitVal /\ [][Next]_vars

-----------------------------------------------------------------------------
(* Runs that explore the point cloud inputs. *)

PcWith(name, path) == JsonBody([t |-> "object", name |-> name, path |-> path])

PcNames ==
  {Undef, Num(7), Str(<<>>), Str(<<32, 32>>), Str(<<65>>), Str(<<32, 65, 9>>)}

PcPaths ==
  {Undef, Num(7), Str(<<>>), Str(<<32, 160>>),
   Str(<<100, 47, 115>>),           \* "d/s"
   Str(<<100, 47, 115, 47>>),       \* "d/s/"
   Str(<<32, 100, 47, 115, 10>>),   \* " d/s\n"
   Str(<<100, 47, 115, 47, 32>>),   \* "d/s/ "
   Str(<<47>>)}                     \* "/"

PcInputs ==
  [steps |-> MaxPcClock,
   ids |-> {Str(ForeignId)},
   filters |-> {Undef},
   creates |-> {CreateMin},
   updates |-> {UpdateWith(TextHi)},
   puts |-> {},
   pointClouds |-> {PcWith(n, p) : n \in PcNames, p \in PcPaths}
                     \cup {BadJson, NoBody, JsonBody(Null)},
   faults |-> {<<NoFault, 1>>}]

InitPc == InitWith(PcInputs)

SpecPc == InitPc /\ [][Next]_vars

-----------------------------------------------------------------------------
(* Runs that explore the routing: any method on any path. *)

RouteMethods == {"GET", "POST", "PUT", "DELETE", "PATCH"}

\* The route templates, the same with one more segment, and others.
RoutePaths ==
  {AnnPath, AnnIdPath, AnnIdPath \o <<"extra">>,
   PcPath, PcIdPath, PcIdPath \o <<"extra">>,
   <<"health">>, <<>>}

RouteInputs ==
  [steps |-> MaxRouteClock,
   ids |-> {Str(ForeignId), Undef},
   filters |-> {Undef},
   creates |-> {CreateMin},
   updates |-> {UpdateWith(TextHi)},
   puts |-> {},
   pointClouds |-> {PcOk},
   faults |-> {<<NoFault, 1>>},
   methods |-> RouteMethods,
   paths |-> RoutePaths]

InitRoute == InitWith(RouteInputs)

\* A request with any of the methods on any of the paths.
AnyRoute ==
  \E m \in inputs.methods, p \in inputs.paths, id \in PathIds :
    Serve(m, p, id, Undef, IF m = "PUT" THEN UpdateWith(TextHi) ELSE NoBody)

NextRoute ==
  \/ PostAnnotation
  \/ PostPointCloud
  \/ AnyRoute

SpecRoute == InitRoute /\ [][NextRoute]_vars

-----------------------------------------------------------------------------
(* Runs with storage faults: the n-th storage call of a request may throw.   *)
(* For the Lambda the call is its one DynamoDB command and the fault an      *)
(* exception of the client; for the local server the calls are db.read()     *)
(* and db.write() and the fault an error of the file adapter.  A failed      *)
(* ConditionExpression is not a fault: DynamoDB raises it exactly when the   *)
(* item is absent.                                                           *)

StorageFaults == {"ProvisionedThroughputExceededException", "InternalServerError"}

FaultInputs ==
  [steps |-> MaxFaultClock,
   ids |-> {Str(ForeignId)},
   filters |-> {Undef},
   creates |-> {CreateMin, CreateNoPosition},
   updates |-> {UpdateWith(TextYo)},
   puts |-> {<<Str(ForeignId), UpdateWith(TextYo)>>},
   pointClouds |-> {PcOk},
   faults |-> {<<NoFault, 1>>} \cup (StorageFaults \X {1, 2})]

InitFault == InitWith(FaultInputs)

SpecFault == InitFault /\ [][Next]_vars

-----------------------------------------------------------------------------
(* Runs in which annotations refer to point clouds, stored or not. *)

\* A create body with a pointCloudId.
CreateRef(pointCloudId) ==
  JsonBody([t |-> "object", pointCloudId |-> Str(pointCloudId), position |-> Pos(1, 2, 3)])

\* randomUUID(1) is the identifier of the first record created, which is a
\* point cloud when the first create is POST /pointclouds.
RefInputs ==
  [steps |-> MaxRefClock,
   ids |-> {Str(ForeignId)},
   filters |-> {Undef, Str(randomUUID(1))},
   creates |-> {CreateMin, CreateRef(randomUUID(1)), CreateRef(PcRef)},
   updates |-> {UpdateWith(TextHi)},
   puts |-> {},
   pointClouds |-> {PcOk},
   faults |-> {<<NoFault, 1>>}]

InitRef == InitWith(RefInputs)

SpecRef == InitRef /\ [][Next]_vars

-----------------------------------------------------------------------------
(* Runs that start the Lambda: the process begins with its module not yet   *)
(* loaded, in an environment where each table name is set, empty or absent. *)

StartEnvs ==
  {Env(a, p) : a \in {Undef, Str(<<>>), DeployedEnv.ANNOTATIONS_TABLE},
               p \in {Undef, Str(<<>>), DeployedEnv.POINT_CLOUDS_TABLE}}

StartInputs == [CoreInputs EXCEPT !.steps = MaxStartClock]

InitStart ==
  /\ InitStores(StartInputs)
  /\ \E e \in StartEnvs : proc = Process(e, Cold)
  /\ client = Browser(FALSE)

\* The runtime loads the module, for the first invocation or again after a
\* failed load.
ModuleInit ==
  /\ proc.module # "loaded"
  /\ proc' = Process(proc.env, moduleInit(proc.env))
  /\ UNCHANGED <<annTable, pcTable, dbFile, dbData, issued, clock, req, respNet,
                 respLoc, netReqs, locReqs, wCur, wNext, gone, born, updated,
                 fault, inputs, client>>

NextStart ==
  \/ ModuleInit
  \/ Next

SpecStart == InitStart /\ [][NextStart]_vars

-----------------------------------------------------------------------------
(* Runs of the browser client: the user opens the modal, types and saves;   *)
(* the client is the only one to send requests.                             *)

\* What the user may have in the text area.
TypedTexts ==
  {TextYo, Text256, Text254e, Text255e, Text65emoji,
   <<32>> \o Text256 \o <<10>>,       \* 258 bytes, 256 when trimmed
   <<32>> \o Text257}                 \* 258 bytes, 257 when trimmed

ClientInputs ==
  [steps |-> MaxClientClock,
   ids |-> {},
   filters |-> {Undef},
   creates |-> {},
   updates |-> {},
   puts |-> {},
   pointClouds |-> {},
   faults |-> {<<NoFault, 1>>},
   texts |-> TypedTexts]

InitClient ==
  /\ InitStores(ClientInputs)
  /\ proc = Process(DeployedEnv, moduleInit(DeployedEnv))
  /\ \E useLocalApi \in BOOLEAN : client = Browser(useLocalApi)

\* What no action of the user on the page changes.
BackendUnchanged ==
  UNCHANGED <<annTable, pcTable, dbFile, dbData, issued, clock, req, respNet,
              respLoc, netReqs, locReqs, wCur, wNext, gone, born, updated,
              fault, inputs, proc>>

\* An opening of the modal ends the opening the earlier requests were sent
\* from.
opens(c, from) ==
  [c EXCEPT
     !.flights = [i \in DOMAIN @ |-> [@[i] EXCEPT !.opening = "past"]],
     !.openedFrom = from,
     !.modal = "open"]

\* openAnnotationModal(null, position, cameraPosition), lines 336-348: a
\* click on the point cloud
OpenNew ==
  /\ client.modal = "hidden"
  /\ client' = [opens(client, "pointcloud") EXCEPT
       !.isEditMode = FALSE,
       !.currentAnnotation = [t |-> "object", position |-> Pos(1, 2, 3),
                              cameraPosition |-> Null],
       !.value = <<>>]
  /\ BackendUnchanged

\* openAnnotationModal(annotation), lines 329-334 and 346-348, with the
\* annotation the listener holds
openEdit(c, from, annotation) ==
  [opens(c, from) EXCEPT
     !.isEditMode = TRUE,
     !.currentAnnotation = annotation,
     !.value = Or(Get(annotation, "text"), Str(<<>>)).s]

\* A click on Edit in the sidebar (line 293) or on a marker of the viewer
\* (line 230)
OpenEdit ==
  /\ client.modal = "hidden"
  /\ \/ \E k \in DOMAIN client.listed :
          client' = openEdit(client, "sidebar", client.listed[k])
     \/ \E k \in DOMAIN client.markers :
          client' = openEdit(client, "marker", client.markers[k])
  /\ BackendUnchanged

\* The user edits the text area.
TypeText ==
  /\ client.modal = "open"
  /\ \E text \in inputs.texts : client' = [client EXCEPT !.value = text]
  /\ BackendUnchanged

\* Cancel, the X, Escape or a click on the backdrop, lines 514-515, 526-538
CloseModal ==
  /\ client.modal = "open"
  /\ client' = closed(client)
  /\ BackendUnchanged

\* The request of a call of the API, api.js lines 51-57 and 80-86
flightServed(f) ==
  IF f.edit THEN Exchange("PUT", AnnIdPath, f.id, Undef, f.body)
  ELSE Exchange("POST", AnnPath, Undef, Undef, f.body)

\* The answer of the backend the client is configured for.
backendAnswer == IF client.USE_LOCAL_API THEN respLoc' ELSE respNet'

\* saveAnnotation, lines 364-409: a click on Save.  The call of the API is
\* served by the backend before the user does anything else.
SaveAnnotation ==
  LET begun == saveBegins(client)
      i == Len(begun.flights)
  IN /\ client.modal = "open"
     /\ clock < inputs.steps
     /\ IF saveRefuses(client.value)
        THEN /\ client' = begun
             /\ clock' = clock + 1
             /\ UNCHANGED <<annTable, pcTable, dbFile, dbData, issued, req, respNet,
                            respLoc, netReqs, locReqs, wCur, wNext, gone, born,
                            updated, fault, inputs, proc>>
        ELSE /\ flightServed(begun.flights[i])
             /\ client' = saveResumes(answered(begun, i, backendAnswer), i)

NextClient ==
  \/ OpenNew
  \/ OpenEdit
  \/ TypeText
  \/ CloseModal
  \/ SaveAnnotation

SpecClient == InitClient /\ [][NextClient]_vars

-----------------------------------------------------------------------------
(* Runs of the browser client with its requests in flight: saveAnnotation   *)
(* is suspended at its await, the page handles other events meanwhile, and  *)
(* the answers may arrive in any order.                                     *)

AsyncInputs ==
  [steps |-> MaxAsyncClock,
   ids |-> {},
   filters |-> {Undef},
   creates |-> {},
   updates |-> {},
   puts |-> {},
   pointClouds |-> {},
   faults |-> {<<NoFault, 1>>},
   texts |-> {TextYo, TextHi}]

InitAsync ==
  /\ InitStores(AsyncInputs)
  /\ proc = Process(DeployedEnv, moduleInit(DeployedEnv))
  /\ \E useLocalApi \in BOOLEAN : client = Browser(useLocalApi)

\* A click on Save, line 513: saveAnnotation runs up to its await
SaveClicked ==
  /\ client.modal = "open"
  /\ client.saves < inputs.steps
  /\ client' = saveBegins(client)
  /\ BackendUnchanged

\* The backend serves a request of the client and its answer arrives.
SaveAnswered ==
  \E i \in DOMAIN client.flights :
    /\ client.flights[i].state = "sent"
    /\ flightServed(client.flights[i])
    /\ client' = answered(client, i, backendAnswer)

\* saveAnnotation resumes after its await.
SaveResumed ==
  \E i \in DOMAIN client.flights :
    /\ client.flights[i].state = "answered"
    /\ client' = saveResumes(client, i)
    /\ BackendUnchanged

NextAsync ==
  \/ OpenNew
  \/ OpenEdit
  \/ TypeText
  \/ CloseModal
  \/ SaveClicked
  \/ SaveAnswered
  \/ SaveResumed

SpecAsync == InitAsync /\ [][NextAsync]_vars

-----------------------------------------------------------------------------
(* Concurrent invocations of the Lambda handler.  An invocation validates   *)
(* its event, sends at most one command to DynamoDB and answers; the        *)
(* command is its only access to shared state, and DynamoDB performs it     *)
(* atomically.                                                              *)

NetInputs ==
  [steps |-> MaxNetRequests,
   ids |-> {},
   filters |-> {Undef},
   creates |-> {CreateMin},
   updates |-> {UpdateWith(TextHi)},
   puts |-> {},
   pointClouds |-> {},
   faults |-> {<<NoFault, 1>>}]

\* The requests a client may send on the annotation routes.
AnnotationRequests ==
  {Request("GET", AnnPath, Undef, f, NoBody) : f \in inputs.filters}
    \cup {Request("POST", AnnPath, Undef, Undef, b) : b \in inputs.creates}
    \cup {Request("PUT", AnnIdPath, p[1], Undef, p[2]) : p \in PutPairs}
    \cup {Request("DELETE", AnnIdPath, id, Undef, NoBody) : id \in PathIds}

\* API Gateway starts an invocation; begin is the number of commands the
\* store had performed by then.
NetReceive ==
  /\ Len(netReqs) < inputs.steps
  /\ \E request \in AnnotationRequests :
       netReqs' = Append(netReqs, [request |-> request, begin |-> clock, running |-> TRUE,
                                   resp |-> NoResponse, at |-> 0])
  /\ UNCHANGED <<annTable, pcTable, dbFile, dbData, issued, clock, req, respNet,
                 respLoc, locReqs, wCur, wNext, gone, born, updated,
                 fault, inputs, proc, client>>

\* The command of a running invocation takes effect at the store, and the
\* invocation answers; at is the command's place in the store's order.
NetComplete ==
  \E i \in 1..Len(netReqs) :
    LET inv == netReqs[i]
        env == [uuid |-> randomUUID(issued + 1), now |-> clock + 1, fault |-> NoFault, failAt |-> 1]
    IN /\ inv.running
       /\ inv.request.method = "POST" => issued < MaxUuids
       /\ \E n \in {handler(toEvent(inv.request), annTable, pcTable, env)} :
            /\ annTable' = n.ann
            /\ pcTable' = n.pc
            /\ clock' = clock + 1
            /\ issued' = IF n.resp.statusCode = 201 THEN issued + 1 ELSE issued
            /\ netReqs' = [netReqs EXCEPT ![i] =
                 [request |-> inv.request, begin |-> inv.begin, running |-> FALSE,
                  resp |-> [statusCode |-> n.resp.statusCode, headers |-> n.resp.headers,
                            body |-> n.resp.body, ops |-> n.ops],
                  at |-> clock + 1]]
       /\ UNCHANGED <<dbFile, dbData, req, respNet, respLoc, locReqs, wCur, wNext,
                      gone, born, updated,
                 fault, inputs, proc, client>>

NextNet ==
  \/ NetReceive
  \/ NetComplete

InitNet == InitWith(NetInputs)

SpecNet == InitNet /\ [][NextNet]_vars

-----------------------------------------------------------------------------
(* Concurrent requests to the local server.  Node runs a handler until it   *)
(* awaits; db.read() and db.write() are its two awaits.  db.data is one     *)
(* object shared by all handlers, and db.write() goes through the file      *)
(* writer of lowdb: one write at a time, replacing the file atomically;     *)
(* writes asked for meanwhile wait, and only the latest data is written.    *)

LocInputs ==
  [steps |-> MaxLocRequests,
   ids |-> {},
   filters |-> {Undef},
   creates |-> {CreateMin},
   updates |-> {UpdateWith(TextHi)},
   puts |-> {},
   pointClouds |-> {},
   faults |-> {<<NoFault, 1>>}]

NoHeld == [none |-> TRUE]

\* A request arrives: the middleware, the routing and the handler up to its
\* first await (or its response, when validation fails).
LocReceive ==
  /\ Len(locReqs) < inputs.steps
  /\ \E request \in AnnotationRequests :
       LET env == [uuid |-> randomUUID(issued + 1), now |-> clock + 1, fault |-> NoFault, failAt |-> 1]
       IN /\ request.method = "POST" => issued < MaxUuids
          /\ \E s1 \in {local1(request, env)} :
               /\ locReqs' = Append(locReqs,
                    [request |-> request,
                     stage |-> IF s1.done THEN "done" ELSE "reading",
                     held |-> IF s1.done THEN NoHeld ELSE s1.held,
                     snapshot |-> <<>>,
                     resp |-> IF s1.done THEN s1.resp ELSE resSend(0)])
               /\ issued' = IF expressRoute(request) = "postAnnotations" /\ ~s1.done
                            THEN issued + 1 ELSE issued
          /\ clock' = clock + 1
  /\ UNCHANGED <<annTable, pcTable, dbFile, dbData, req, respNet, respLoc, netReqs,
                 wCur, wNext, gone, born, updated,
                 fault, inputs, proc, client>>

\* db.read(), first half: the adapter reads the file as it is now.
LocReadFile ==
  \E i \in 1..Len(locReqs) :
    /\ locReqs[i].stage = "reading"
    /\ locReqs' = [locReqs EXCEPT ![i].stage = "read", ![i].snapshot = dbFile]
    /\ UNCHANGED <<annTable, pcTable, dbFile, dbData, issued, clock, req, respNet,
                   respLoc, netReqs, wCur, wNext, gone, born, updated,
                 fault, inputs, proc, client>>

\* db.read(), second half, and the handler up to its next await: db.data
\* becomes what was read, the handler changes it and calls db.write(), which
\* starts writing when the writer is idle and queues the data otherwise.
LocResume ==
  \E i \in 1..Len(locReqs) :
    LET r == locReqs[i]
        route == expressRoute(r.request)
    IN /\ r.stage = "read"
       /\ \E s2 \in {local2(route, r.held, r.snapshot, clock)} :
            IF s2.done
            THEN /\ dbData' = r.snapshot
                 /\ locReqs' = [locReqs EXCEPT ![i].stage = "done", ![i].resp = s2.resp]
                 /\ UNCHANGED <<wCur, wNext>>
            ELSE /\ dbData' = s2.held.data
                 /\ locReqs' = [locReqs EXCEPT ![i].stage = "writing", ![i].held = s2.held]
                 /\ IF wCur = <<>>
                    THEN /\ wCur' = <<[data |-> s2.held.data, resolves |-> {}, direct |-> {i}]>>
                         /\ wNext' = wNext
                    ELSE /\ wCur' = wCur
                         /\ wNext' = <<[data |-> s2.held.data,
                                        resolves |-> {i} \cup (IF wNext = <<>> THEN {}
                                                               ELSE wNext[1].resolves)]>>
       /\ UNCHANGED <<annTable, pcTable, dbFile, issued, clock, req, respNet, respLoc,
                      netReqs, gone, born, updated,
                 fault, inputs, proc, client>>

\* The write in progress replaces the file.  The handlers whose queued data
\* it wrote go on to their response; the writer starts the waiting write,
\* or, with none waiting, lets the handlers that started the chain go on.
LocWriteLands ==
  /\ wCur # <<>>
  /\ LET w == wCur[1]
         woken == IF wNext = <<>> THEN w.resolves \cup w.direct ELSE w.resolves
     IN /\ dbFile' = w.data
        /\ wCur' = IF wNext = <<>> THEN <<>>
                   ELSE <<[data |-> wNext[1].data, resolves |-> wNext[1].resolves,
                           direct |-> w.direct]>>
        /\ wNext' = <<>>
        /\ locReqs' = [i \in 1..Len(locReqs) |->
             IF i \in woken
             THEN [locReqs[i] EXCEPT
                     !.stage = "done",
                     !.resp = local3(expressRoute(locReqs[i].request), locReqs[i].held, dbData)]
             ELSE locReqs[i]]
  /\ UNCHANGED <<annTable, pcTable, dbData, issued, clock, req, respNet, respLoc,
                 netReqs, gone, born, updated,
                 fault, inputs, proc, client>>

NextLocal ==
  \/ LocReceive
  \/ LocReadFile
  \/ LocResume
  \/ LocWriteLands

InitLocal == InitWith(LocInputs)

SpecLocal == InitLocal /\ [][NextLocal]_vars

-----------------------------------------------------------------------------
(* Vocabulary of the properties *)

HexDigits == (48..57) \cup (97..102) \cup (65..70)

AllHex(s) == \A i \in 1..Len(s) : s[i] \in HexDigits

\* The canonical textual UUID shape: five groups of 8, 4, 4, 4 and 12
\* hexadecimal digits, separated by hyphens.
IsCanonicalUuid(s) ==
  /\ Len(s) = 8 + 1 + 4 + 1 + 4 + 1 + 4 + 1 + 12
  /\ AllHex(SubSeq(s, 1, 8)) /\ s[9] = 45
  /\ AllHex(SubSeq(s, 10, 13)) /\ s[14] = 45
  /\ AllHex(SubSeq(s, 15, 18)) /\ s[19] = 45
  /\ AllHex(SubSeq(s, 20, 23)) /\ s[24] = 45
  /\ AllHex(SubSeq(s, 25, 36))

\* The path identifier of a request is present and of UUID shape.
WellFormedId(request) == request.id.t = "string" /\ IsCanonicalUuid(request.id.s)

\* The length of the UTF-8 encoding of a text, counted by character class.
Utf8Length(s) ==
  LET Count(lo, hi) == Cardinality({i \in 1..Len(s) : s[i] >= lo /\ s[i] <= hi})
  IN Count(0, 127) + 2 * Count(128, 2047) + 3 * Count(2048, 65535)
       + 4 * Count(65536, 1114111)

\* The error message of a response, "" when it carries none.
ErrorOf(resp) ==
  IF resp.body.t = "jsontext" /\ resp.body.value.t = "object"
       /\ "error" \in DOMAIN resp.body.value
  THEN resp.body.value.error ELSE ""

\* The value a response body is the JSON text of.
BodyOf(resp) == resp.body.value

\* The request body is the JSON text of an object.
HasObjectBody(request) ==
  request.body.kind = "json" /\ request.body.value.t = "object"

\* The text field of the request body (Undef when it has none).
TextOf(request) ==
  IF HasObjectBody(request) THEN Get(request.body.value, "text") ELSE Undef

\* A body updateAnnotation has no reason to refuse.
ValidUpdateBody(request) ==
  /\ HasObjectBody(request)
  /\ \/ TextOf(request) = Undef
     \/ TextOf(request).t = "string" /\ Utf8Length(TextOf(request).s) <= 256

\* A body createAnnotation has no reason to refuse, the text aside.
ValidPosition(request) ==
  /\ HasObjectBody(request)
  /\ Get(request.body.value, "position").t = "object"
  /\ \A c \in {"x", "y", "z"} : Get(Get(request.body.value, "position"), c).t = "number"

StoredIn(file, id) == \E i \in 1..Len(file) : file[i].id = Str(id)

WriteOps == {"Put", "Update", "Delete", "write"}

IssuesWrite(resp) == \E i \in 1..Len(resp.ops) : resp.ops[i] \in WriteOps

-----------------------------------------------------------------------------
(* C1 *)

\* C1: in both variants a PUT /annotations/{id} with a well-formed id that is
\* not stored (and a body that is valid) is answered 404 and no record with
\* that id exists afterwards.
C1_UpdateOfMissingIsNotFound ==
  [][LET r == req'
     IN (IsRoute(r, "PUT", AnnIdPath) /\ WellFormedId(r) /\ ValidUpdateBody(r))
        => /\ r.id.s \notin DOMAIN annTable
              => (respNet'.statusCode = 404 /\ r.id.s \notin DOMAIN annTable')
           /\ ~StoredIn(dbFile, r.id.s)
              => (respLoc'.statusCode = 404 /\ ~StoredIn(dbFile', r.id.s))]_vars

-----------------------------------------------------------------------------
(* C2 *)

\* C2: a DELETE of a stored id is answered 204 and removes the record, and a
\* later DELETE of an id a DELETE has removed is answered 404 (annotations in
\* both variants, point clouds in the networked one; POST never reuses an id).
C2_DeleteTwiceIsNotFound ==
  [][LET r == req'
     IN /\ (IsRoute(r, "DELETE", AnnIdPath) /\ WellFormedId(r))
           => /\ r.id.s \in DOMAIN annTable
                 => (respNet'.statusCode = 204 /\ r.id.s \notin DOMAIN annTable')
              /\ StoredIn(dbFile, r.id.s)
                 => (respLoc'.statusCode = 204 /\ ~StoredIn(dbFile', r.id.s))
              /\ r.id.s \in gone.ann => respNet'.statusCode = 404
              /\ r.id.s \in gone.loc => respLoc'.statusCode = 404
        /\ (IsRoute(r, "DELETE", PcIdPath) /\ WellFormedId(r))
           => /\ r.id.s \in DOMAIN pcTable
                 => (respNet'.statusCode = 204 /\ r.id.s \notin DOMAIN pcTable')
              /\ r.id.s \in gone.pc => respNet'.statusCode = 404]_vars

-----------------------------------------------------------------------------
(* C3 *)

IdRoutes == {<<"PUT", AnnIdPath>>, <<"DELETE", AnnIdPath>>, <<"DELETE", PcIdPath>>}

-----------------------------------------------------------------------------
(* C4 *)

Range(seq) == {seq[i] : i \in 1..Len(seq)}

\* The record a 201 response carries.
Created(resp) == BodyOf(resp)

\* C4: a successful POST /annotations adds exactly one record to the store
\* and keeps the others; the record has the input position and an id that is
\* a UUID the server generated in that request, not the id of the payload; and
\* an unfiltered GET /annotations that follows it immediately returns exactly
\* the stored records, the new one once. In both variants.
C4_CreateThenList ==
  [][/\ (IsRoute(req', "POST", AnnPath) /\ respNet'.statusCode = 201)
        => LET k == Created(respNet').id.s
           IN /\ IsCanonicalUuid(k)
              /\ k \in IssuedIds' \ IssuedIds
              /\ Created(respNet').id # Get(req'.body.value, "id")
              /\ k \notin DOMAIN annTable
              /\ DOMAIN annTable' = DOMAIN annTable \cup {k}
              /\ \A j \in DOMAIN annTable : annTable'[j] = annTable[j]
              /\ annTable'[k] = Created(respNet')
              /\ annTable'[k].position = Get(req'.body.value, "position")
     /\ (IsRoute(req', "POST", AnnPath) /\ respLoc'.statusCode = 201)
        => LET k == Created(respLoc').id.s
           IN /\ IsCanonicalUuid(k)
              /\ k \in IssuedIds' \ IssuedIds
              /\ Created(respLoc').id # Get(req'.body.value, "id")
              /\ ~StoredIn(dbFile, k)
              /\ dbFile' = Append(dbFile, Created(respLoc'))
              /\ Created(respLoc').position = Get(req'.body.value, "position")
     /\ (IsRoute(req, "POST", AnnPath) /\ IsRoute(req', "GET", AnnPath)
           /\ ~Truthy(req'.pointCloudId))
        => /\ respNet.statusCode = 201
              => /\ respNet'.statusCode = 200
                 /\ BodyOf(respNet').items = {annTable[j] : j \in DOMAIN annTable}
                 /\ Cardinality({x \in BodyOf(respNet').items :
                                   x.id = Created(respNet).id}) = 1
                 /\ Created(respNet) \in BodyOf(respNet').items
           /\ respLoc.statusCode = 201
              => /\ respLoc'.statusCode = 200
                 /\ BodyOf(respLoc').items = dbFile
                 /\ Cardinality({i \in 1..Len(dbFile) :
                                   dbFile[i].id = Created(respLoc).id}) = 1
                 /\ Created(respLoc) \in Range(BodyOf(respLoc').items)]_vars

\* C4 witness: the unfiltered list answered right after a create (the record
\* created one tick before it is in it), other records being there already;
\* the payload of the create carried an id of its own.
C4_Witness ==
  /\ IsRoute(req, "GET", AnnPath)
  /\ ~Truthy(req.pointCloudId)
  /\ respNet.statusCode = 200
  /\ respLoc.statusCode = 200
  /\ Cardinality(BodyOf(respNet).items) >= 2
  /\ Len(BodyOf(respLoc).items) >= 2
  /\ \E x \in BodyOf(respNet).items :
       /\ x.createdAt = Date(clock - 1)
       /\ x.pointCloudId = Str(PcRef)
       /\ x \in Range(BodyOf(respLoc).items) \/ x.id \in {y.id : y \in Range(BodyOf(respLoc).items)}

-----------------------------------------------------------------------------
(* C5 *)

TextTooLong(resp) ==
  resp.statusCode = 400 /\ ErrorOf(resp) = "Text exceeds 256 bytes limit"

\* C5: on create (position valid) and on update (id well-formed), in both
\* variants, a text of at most 256 UTF-8 bytes is accepted and a text of 257
\* bytes or more is answered 400 "Text exceeds 256 bytes limit"; bytes count,
\* not characters.
C5_TextLimitIsInBytes ==
  /\ (IsRoute(req, "POST", AnnPath) /\ ValidPosition(req) /\ TextOf(req).t = "string")
     => IF Utf8Length(TextOf(req).s) <= 256
        THEN respNet.statusCode = 201 /\ respLoc.statusCode = 201
        ELSE TextTooLong(respNet) /\ TextTooLong(respLoc)
  /\ (IsRoute(req, "PUT", AnnIdPath) /\ WellFormedId(req) /\ HasObjectBody(req)
        /\ TextOf(req).t = "string")
     => IF Utf8Length(TextOf(req).s) <= 256
        THEN respNet.statusCode \in {200, 404} /\ respLoc.statusCode \in {200, 404}
        ELSE TextTooLong(respNet) /\ TextTooLong(respLoc)

\* C5 witness: 255 one-byte characters and one two-byte character (256
\* characters, 257 bytes) refused on an update of a stored annotation.
C5_Witness ==
  /\ IsRoute(req, "PUT", AnnIdPath)
  /\ req.id.t = "string"
  /\ req.id.s \in DOMAIN annTable
  /\ StoredIn(dbFile, req.id.s)
  /\ TextOf(req) = Str(Text255e)
  /\ Len(Text255e) = 256
  /\ TextTooLong(respNet)
  /\ TextTooLong(respLoc)

-----------------------------------------------------------------------------
(* C6 *)

\* A stored annotation without its timestamps (ids are the same in both
\* variants of a run).
Comparable(x) ==
  [id |-> x.id, pointCloudId |-> x.pointCloudId, position |-> x.position,
   text |-> x.text, cameraPosition |-> x.cameraPosition,
   cameraTarget |-> x.cameraTarget]

\* C6: the two variants answer every request with the same status code and
\* hold the same annotations, generated ids and timestamps aside.
C6_VariantsAgree ==
  /\ respNet.statusCode = respLoc.statusCode
  /\ {Comparable(annTable[k]) : k \in DOMAIN annTable}
       = {Comparable(dbFile[i]) : i \in 1..Len(dbFile)}

-----------------------------------------------------------------------------
(* C7 *)

\* Invocation j is a DELETE of the annotation id that was answered 204 and
\* took effect after invocation i had begun.
DeletedMeanwhile(i, id) ==
  \E j \in 1..Len(netReqs) :
    /\ j # i
    /\ ~netReqs[j].running
    /\ IsRoute(netReqs[j].request, "DELETE", AnnIdPath)
    /\ netReqs[j].request.id = id
    /\ netReqs[j].resp.statusCode = 204
    /\ netReqs[i].begin < netReqs[j].at

\* C7: networked variant; a PUT of X is in flight while a DELETE of X takes
\* effect at the store, and X is still absent when the PUT's command takes
\* effect: the PUT is answered 404 and X is not stored afterwards.
C7_PutRacingDeleteIsNotFound ==
  [][\A i \in 1..Len(netReqs) :
       (/\ netReqs[i].running
        /\ ~netReqs'[i].running
        /\ IsRoute(netReqs[i].request, "PUT", AnnIdPath)
        /\ DeletedMeanwhile(i, netReqs[i].request.id)
        /\ netReqs[i].request.id.s \notin DOMAIN annTable)
       => (/\ netReqs'[i].resp.statusCode = 404
           /\ netReqs[i].request.id.s \notin DOMAIN annTable')]_vars

-----------------------------------------------------------------------------
(* C8 *)

\* Every request to the local server has been answered.
LocQuiet == \A i \in 1..Len(locReqs) : locReqs[i].stage = "done"

\* A DELETE of the annotation id was answered 204.
LocDeleted(id) ==
  \E j \in 1..Len(locReqs) :
    /\ IsRoute(locReqs[j].request, "DELETE", AnnIdPath)
    /\ locReqs[j].request.id = id
    /\ locReqs[j].resp.statusCode = 204

\* C8: local variant; once every request has been answered, the file holds
\* every annotation a POST answered 201 created, unless a DELETE answered
\* 204 removed it, and holds no annotation a DELETE answered 204 removed.
C8_NoLostUpdate ==
  LocQuiet =>
    \A i \in 1..Len(locReqs) :
      /\ (IsRoute(locReqs[i].request, "POST", AnnPath) /\ locReqs[i].resp.statusCode = 201)
           => (StoredIn(dbFile, BodyOf(locReqs[i].resp).id.s)
                 <=> ~LocDeleted(BodyOf(locReqs[i].resp).id))
      /\ (IsRoute(locReqs[i].request, "DELETE", AnnIdPath) /\ locReqs[i].resp.statusCode = 204)
           => ~StoredIn(dbFile, locReqs[i].request.id.s)

-----------------------------------------------------------------------------
(* C9 *)

\* C9: GET /annotations?pointCloudId=X, X not empty, returns exactly the
\* stored annotations whose pointCloudId is X, in both variants.
C9_FilterByPointCloud ==
  (IsRoute(req, "GET", AnnPath) /\ req.pointCloudId.t = "string"
     /\ req.pointCloudId.s # <<>>)
  => /\ respNet.statusCode = 200
     /\ BodyOf(respNet).items
          = {x \in {annTable[k] : k \in DOMAIN annTable} : x.pointCloudId = req.pointCloudId}
     /\ respLoc.statusCode = 200
     /\ Range(BodyOf(respLoc).items)
          = {x \in Range(dbFile) : x.pointCloudId = req.pointCloudId}

-----------------------------------------------------------------------------
(* C10 *)

-----------------------------------------------------------------------------
(* C11 *)

\* s consists of white space only (or is empty).
Blank(s) == \A i \in 1..Len(s) : s[i] \in WhiteSpace

\* The field is absent, not a string, or empty after trimming.
Missing(v) == v.t # "string" \/ Blank(v.s)

NameOf(request) == Get(request.body.value, "name")
PathOf(request) == Get(request.body.value, "path")

\* C11: POST /pointclouds with a name that is absent, not a string or blank
\* is answered 400 "Name is required"; with such a path (the name being
\* fine), 400 "Path is required"; and every stored point cloud has a name
\* that is not empty.
C11_PointCloudNeedsNameAndPath ==
  /\ (IsRoute(req, "POST", PcPath) /\ HasObjectBody(req))
     => /\ Missing(NameOf(req))
           => (respNet.statusCode = 400 /\ ErrorOf(respNet) = "Name is required")
        /\ (~Missing(NameOf(req)) /\ Missing(PathOf(req)))
           => (respNet.statusCode = 400 /\ ErrorOf(respNet) = "Path is required")
  /\ \A k \in DOMAIN pcTable : pcTable[k].name.s # <<>>

-----------------------------------------------------------------------------
(* C12 *)

\* s without its leading and trailing white space, by positions: from the
\* first to the last character that is not white space.
Trimmed(s) ==
  LET Solid == {i \in 1..Len(s) : s[i] \notin WhiteSpace}
  IN IF Solid = {} THEN <<>>
     ELSE SubSeq(s, CHOOSE i \in Solid : \A j \in Solid : i <= j,
                    CHOOSE i \in Solid : \A j \in Solid : i >= j)

EndsWithSeparator(s) == Len(s) >= 1 /\ s[Len(s)] = 47

\* C12: a POST /pointclouds answered 201 stores the trimmed input path, with
\* one '/' appended when it does not end with '/' and as it is when it does;
\* every stored path ends with '/', and normalizing a stored path gives it
\* back.
C12_PathIsNormalized ==
  /\ (IsRoute(req, "POST", PcPath) /\ respNet.statusCode = 201)
     => LET t == Trimmed(PathOf(req).s)
            stored == pcTable[BodyOf(respNet).id.s].path.s
        IN /\ BodyOf(respNet).id.s \in DOMAIN pcTable
           /\ stored = IF EndsWithSeparator(t) THEN t ELSE t \o <<47>>
           /\ BodyOf(respNet).path.s = stored
  /\ \A k \in DOMAIN pcTable :
       /\ EndsWithSeparator(pcTable[k].path.s)
       /\ normalizePath(pcTable[k].path.s) = pcTable[k].path.s

\* C12 witness: " d/s\n" was stored as "d/s/", and "d/s/" as it is.
C12_Witness ==
  /\ IsRoute(req, "POST", PcPath)
  /\ respNet.statusCode = 201
  /\ PathOf(req) = Str(<<32, 100, 47, 115, 10>>)
  /\ BodyOf(respNet).path = Str(<<100, 47, 115, 47>>)
  /\ Cardinality(DOMAIN pcTable) = 2
  /\ \A k \in DOMAIN pcTable : pcTable[k].path = Str(<<100, 47, 115, 47>>)

-----------------------------------------------------------------------------
(* C13 *)

InvalidPosition(resp) ==
  resp.statusCode = 400 /\ ErrorOf(resp) = "Invalid position coordinates"

\* C13: POST /annotations with a body that is JSON text, in which position
\* is absent or one of its x, y, z is not a number, is answered 400 "Invalid
\* position coordinates" by both variants and changes neither store.
C13_BadPositionIs400 ==
  [][(IsRoute(req', "POST", AnnPath) /\ req'.body.kind = "json" /\ ~ValidPosition(req'))
       => (/\ InvalidPosition(respNet')
           /\ InvalidPosition(respLoc')
           /\ annTable' = annTable
           /\ dbFile' = dbFile)]_vars

\* The same, for bodies that are the JSON text of an object.
C13_ObjectBodies ==
  [][(IsRoute(req', "POST", AnnPath) /\ HasObjectBody(req') /\ ~ValidPosition(req'))
       => (/\ InvalidPosition(respNet')
           /\ InvalidPosition(respLoc')
           /\ annTable' = annTable
           /\ dbFile' = dbFile)]_vars

-----------------------------------------------------------------------------
(* C14 *)

\* C14: a DELETE that is answered 204 is answered with an empty body, by the
\* networked handler for annotations and point clouds and by the local
\* server for annotations.
C14_DeleteAnswersEmptyBody ==
  (IsRoute(req, "DELETE", AnnIdPath) \/ IsRoute(req, "DELETE", PcIdPath))
    => /\ respNet.statusCode = 204 => respNet.body = EmptyBody
       /\ respLoc.statusCode = 204 => respLoc.body = EmptyBody

\* The local server's half of C14.
C14_LocalDeleteAnswersEmptyBody ==
  (IsRoute(req, "DELETE", AnnIdPath) /\ respLoc.statusCode = 204)
    => respLoc.body = EmptyBody

-----------------------------------------------------------------------------
(* C15 *)

\* The seven route templates.
RouteTemplates ==
  {<<"GET", AnnPath>>, <<"POST", AnnPath>>, <<"PUT", AnnIdPath>>,
   <<"DELETE", AnnIdPath>>, <<"GET", PcPath>>, <<"POST", PcPath>>,
   <<"DELETE", PcIdPath>>}

RouteNotFound(resp) ==
  resp.statusCode = 404 /\ ErrorOf(resp) = "Not found" /\ resp.ops = <<>>

\* C15: a request whose method and path are not exactly one of the seven
\* route templates is answered 404 "Not found" by the networked handler
\* without any storage access, and leaves both tables as they were.
C15_OnlyExactRoutesDispatch ==
  [][<<req'.method, req'.path>> \notin RouteTemplates
       => (/\ RouteNotFound(respNet')
           /\ annTable' = annTable
           /\ pcTable' = pcTable)]_vars

\* The same for the routes that take no identifier.
C15_ExactWithoutIdentifier ==
  [][(<<req'.method, req'.path>> \notin RouteTemplates /\ Len(req'.path) < 2)
       => (/\ RouteNotFound(respNet')
           /\ annTable' = annTable
           /\ pcTable' = pcTable)]_vars

-----------------------------------------------------------------------------
(* C16 *)

\* The record stored under an identifier has the identifier and the
\* createdAt that createAnnotation assigned to it.
AsCreated(record, id) == record.id = Str(id) /\ record.createdAt = born[id]

\* C16: every stored annotation that was created by a POST has the id and
\* the createdAt assigned at its creation, in both stores.
C16_CreationFieldsKept ==
  \A id \in DOMAIN born :
    /\ id \in DOMAIN annTable => AsCreated(annTable[id], id)
    /\ \A i \in 1..Len(dbFile) : dbFile[i].id = Str(id) => AsCreated(dbFile[i], id)

\* The local server's half of C16.
C16_LocalCreationFieldsKept ==
  \A id \in DOMAIN born :
    \A i \in 1..Len(dbFile) : dbFile[i].id = Str(id) => AsCreated(dbFile[i], id)

\* No request changes the id or the createdAt of a record that is stored
\* before and after it.
C16_StepKeepsCreationFields ==
  [][/\ \A id \in DOMAIN annTable \cap DOMAIN annTable' :
          /\ annTable'[id].id = annTable[id].id
          /\ annTable'[id].createdAt = annTable[id].createdAt
     /\ \A i \in 1..Len(dbFile), j \in 1..Len(dbFile') :
          dbFile'[j].id = dbFile[i].id => dbFile'[j].createdAt = dbFile[i].createdAt]_vars

-----------------------------------------------------------------------------
(* C17 *)

\* The annotation stored under id in the local file.
LocRecord(id) == dbFile[CHOOSE i \in 1..Len(dbFile) : dbFile[i].id = Str(id)]

\* C17: in both stores an annotation has an updatedAt exactly when a PUT on
\* its id has been answered 200, and a PUT answered 200 has set, in one
\* write, the updatedAt of the record to the time of the request and, when
\* the request carries a text, its text to that text.
C17_UpdatedAtIffUpdated ==
  /\ \A id \in DOMAIN annTable :
       annTable[id].updatedAt # Undef <=> id \in updated.ann
  /\ \A i \in 1..Len(dbFile) :
       dbFile[i].updatedAt # Undef <=> dbFile[i].id.s \in updated.loc
  /\ (IsRoute(req, "PUT", AnnIdPath) /\ respNet.statusCode = 200)
       => /\ annTable[req.id.s].updatedAt = Date(clock)
          /\ TextOf(req) # Undef => annTable[req.id.s].text = TextOf(req)
          /\ respNet.ops = <<"Update">>
  /\ (IsRoute(req, "PUT", AnnIdPath) /\ respLoc.statusCode = 200)
       => /\ LocRecord(req.id.s).updatedAt = Date(clock)
          /\ TextOf(req) # Undef => LocRecord(req.id.s).text = TextOf(req)
          /\ respLoc.ops = <<"read", "write">>

\* Both stores hold an annotation that was created and never updated, and
\* one that a PUT answered 200 has updated.
C17_Witness ==
  /\ \E a, b \in DOMAIN born \cap DOMAIN annTable :
       /\ a \notin updated.ann /\ annTable[a].updatedAt = Undef
       /\ b \in updated.ann /\ annTable[b].updatedAt # Undef
  /\ \E i, j \in 1..Len(dbFile) :
       /\ dbFile[i].id.s \notin updated.loc /\ dbFile[i].updatedAt = Undef
       /\ dbFile[j].id.s \in updated.loc /\ dbFile[j].updatedAt # Undef

-----------------------------------------------------------------------------
(* C18 *)

\* The body of resp is the JSON text of the record with this identifier as an
\* update with this request body leaves it: an object with the creation
\* fields, an updatedAt and, when the request carries a text, that text.
IsUpdatedRecord(resp, request) ==
  /\ resp.body.t = "jsontext"
  /\ BodyOf(resp).t = "object"
  /\ BodyOf(resp).id = request.id
  /\ BodyOf(resp).createdAt # Undef
  /\ BodyOf(resp).position # Undef
  /\ BodyOf(resp).updatedAt # Undef
  /\ TextOf(request) # Undef => BodyOf(resp).text = TextOf(request)

\* C18: the body of every 200 the local server answers to a PUT, with other
\* requests in progress or not, is the complete record after that update.
C18_PutAnswersUpdatedRecord ==
  \A i \in 1..Len(locReqs) :
    (IsRoute(locReqs[i].request, "PUT", AnnIdPath) /\ locReqs[i].resp.statusCode = 200)
      => IsUpdatedRecord(locReqs[i].resp, locReqs[i].request)

\* The same when requests are served one at a time, by the local server.
C18_SequentialLocalPut ==
  (IsRoute(req, "PUT", AnnIdPath) /\ respLoc.statusCode = 200)
    => IsUpdatedRecord(respLoc, req)

\* The same when requests are served one at a time, by the Lambda handler.
C18_SequentialNetPut ==
  (IsRoute(req, "PUT", AnnIdPath) /\ respNet.statusCode = 200)
    => IsUpdatedRecord(respNet, req)

-----------------------------------------------------------------------------
(* C19 *)

\* C19: every response of the networked handler carries the same headers,
\* those of response(), in which Access-Control-Allow-Origin is '*'.
C19_EveryResponseHasCorsHeaders ==
  req # NoRequest
    => /\ respNet.headers = CorsHeaders
       /\ respNet.headers.AccessControlAllowOrigin = "*"

\* The handler has answered 500, with the headers.
C19_Witness ==
  /\ req # NoRequest
  /\ respNet.statusCode = 500
  /\ respNet.headers = CorsHeaders

-----------------------------------------------------------------------------
(* C20 *)

\* The storage call of the Lambda, or a storage call of the local server,
\* threw the fault f while the request was served with these calls.
NetFaultHit(f, ops) == f[1] # NoFault /\ f[2] = 1 /\ ops # <<>>
LocFaultHit(f, ops) == f[1] # NoFault /\ Len(ops) >= f[2]

\* The body of the 500 of the local server for a request.
LocalFailure(request) ==
  IF request.method = "GET" THEN "Failed to fetch annotations"
  ELSE IF request.method = "POST" THEN "Failed to create annotation"
  ELSE IF request.method = "PUT" THEN "Failed to update annotation"
  ELSE "Failed to delete annotation"

-----------------------------------------------------------------------------
(* C21 *)

\* The request is for an endpoint of the Lambda that reads a body, and gets
\* as far as reading it.
ReadsBody(request) ==
  \/ IsRoute(request, "POST", AnnPath)
  \/ IsRoute(request, "PUT", AnnIdPath) /\ WellFormedId(request)
  \/ IsRoute(request, "POST", PcPath)

InvalidPayload(resp) == resp.statusCode = 400 /\ ErrorOf(resp) = "Invalid JSON body"

\* C21: on POST /annotations, PUT /annotations/{id} and POST /pointclouds a
\* body that is not JSON text is answered 400 "Invalid JSON body" by the
\* Lambda, which sends no command to DynamoDB and leaves both tables as
\* they were.
C21_BadJsonIs400WithoutStorage ==
  [][(ReadsBody(req') /\ req'.body.kind = "text")
       => (/\ InvalidPayload(respNet')
           /\ respNet'.ops = <<>>
           /\ annTable' = annTable
           /\ pcTable' = pcTable)]_vars

\* A PUT on a well-formed identifier with a body that is not JSON text has
\* been answered 400 "Invalid JSON body".
C21_Witness ==
  /\ IsRoute(req, "PUT", AnnIdPath) /\ WellFormedId(req)
  /\ req.body.kind = "text"
  /\ InvalidPayload(respNet)
  /\ respNet.ops = <<>>

\* The local server refuses the same bodies with 400, in its JSON middleware.
C21_LocalBadJsonIs400 ==
  req.body.kind = "text" => (respLoc.statusCode = 400 /\ respLoc.ops = <<>>)

-----------------------------------------------------------------------------
(* C22 *)

\* The pointCloudId of the request body (Undef when it has none).
PointCloudIdOf(request) ==
  IF HasObjectBody(request) THEN Get(request.body.value, "pointCloudId") ELSE Undef

\* The annotations that refer to the point cloud id.
Referring(table, id) == {k \in DOMAIN table : table[k].pointCloudId = Str(id)}

\* C22: the Lambda answers 201 to a POST /annotations with a valid position
\* and an acceptable text whatever its pointCloudId, stored as a point cloud or not, and
\* stores the annotation with that pointCloudId; and a DELETE
\* /pointclouds/{id} leaves the annotation table as it was.
C22_NoReferentialIntegrity ==
  [][/\ (IsRoute(req', "POST", AnnPath) /\ ValidPosition(req') /\ ValidUpdateBody(req'))
          => /\ respNet'.statusCode = 201
             /\ \E k \in DOMAIN annTable' \ DOMAIN annTable :
                  /\ annTable' = DdbPut(annTable, annTable'[k])
                  /\ PointCloudIdOf(req') # Undef
                       => annTable'[k].pointCloudId = PointCloudIdOf(req')
     /\ IsRoute(req', "DELETE", PcIdPath) => annTable' = annTable]_vars

\* A point cloud has just been deleted, with 204, while an annotation that
\* refers to it is stored, and another stored annotation refers to a point
\* cloud that was never stored.
C22_Witness ==
  /\ IsRoute(req, "DELETE", PcIdPath)
  /\ respNet.statusCode = 204
  /\ Referring(annTable, req.id.s) # {}
  /\ Referring(annTable, PcRef) # {}
  /\ PcRef \notin gone.pc

-----------------------------------------------------------------------------
(* C23 *)

\* Both table names are set in the environment of the process.
BothNamesSet == Truthy(proc.env.ANNOTATIONS_TABLE) /\ Truthy(proc.env.POINT_CLOUDS_TABLE)

\* The handler has served no request.
NothingHandled ==
  /\ req = NoRequest
  /\ respNet = NoResponse
  /\ annTable = EmptyTable
  /\ pcTable = EmptyTable

\* C23: when a table name is missing from the environment the module never
\* loads and the handler never serves a request; whenever the handler has
\* served one, both names are set and bound to the module's constants.
C23_NoHandlingWithoutTableNames ==
  /\ ~BothNamesSet => (proc.module # "loaded" /\ NothingHandled)
  /\ ~NothingHandled
       => /\ BothNamesSet
          /\ proc.module = "loaded"
          /\ proc.TABLE_NAME = proc.env.ANNOTATIONS_TABLE
          /\ proc.POINT_CLOUDS_TABLE = proc.env.POINT_CLOUDS_TABLE

\* The module has failed to load for want of the second name alone.
C23_Witness ==
  /\ Truthy(proc.env.ANNOTATIONS_TABLE)
  /\ ~Truthy(proc.env.POINT_CLOUDS_TABLE)
  /\ proc.module = "failed"
  /\ NothingHandled

-----------------------------------------------------------------------------
(* C24 *)

\* The text area holds a text of more than 256 UTF-8 bytes, its surrounding
\* white space aside.
OverLimit(value) == Utf8Length(Trimmed(value)) > 256

\* C24: every create or update request the browser client sends carries the
\* trimmed text of the text area, of at most 256 UTF-8 bytes; and a click
\* on Save with a longer text calls no API and leaves the modal, the text
\* area and the annotation map of the client, and both stores, as they were.
C24_ClientNeverSendsLongText ==
  [][/\ client'.calls # client.calls
          => /\ ~OverLimit(client.value)
             /\ TextOf(req') = Str(Trimmed(client.value))
             /\ Utf8Length(TextOf(req').s) <= 256
     /\ (client'.saves # client.saves /\ OverLimit(client.value))
          => /\ client'.calls = client.calls
             /\ req' = req /\ respNet' = respNet /\ respLoc' = respLoc
             /\ annTable' = annTable /\ dbFile' = dbFile
             /\ client'.modal = client.modal /\ client'.modal = "open"
             /\ client'.value = client.value
             /\ client'.isEditMode = client.isEditMode
             /\ client'.currentAnnotation = client.currentAnnotation
             /\ client'.annotations = client.annotations]_vars

\* Save has been clicked in edit mode with a text of 257 bytes (256
\* characters): no call was made for it and the modal is still open.
C24_Witness ==
  /\ client.modal = "open"
  /\ client.isEditMode
  /\ client.value = Text255e
  /\ client.status = "Text exceeds 256 bytes limit"
  /\ client.saves = client.calls + 1
  /\ client.annotations # <<>>

-----------------------------------------------------------------------------
(* C25 *)

\* new is old but for its text and its updatedAt.
SameButTextAndUpdatedAt(old, new) ==
  /\ DOMAIN new = DOMAIN old
  /\ \A f \in DOMAIN old \ {"text", "updatedAt"} : new[f] = old[f]

\* C25: a PUT answered 200 on a stored annotation leaves that annotation as
\* it was but for its text and updatedAt, and leaves every other annotation
\* and every point cloud as it was; in both variants.
C25_UpdateChangesTextAndUpdatedAtOnly ==
  [][/\ (IsRoute(req', "PUT", AnnIdPath) /\ respNet'.statusCode = 200)
          => /\ pcTable' = pcTable
             /\ DOMAIN annTable' = DOMAIN annTable \cup {req'.id.s}
             /\ \A k \in DOMAIN annTable :
                  IF k = req'.id.s
                  THEN SameButTextAndUpdatedAt(annTable[k], annTable'[k])
                  ELSE annTable'[k] = annTable[k]
     /\ (IsRoute(req', "PUT", AnnIdPath) /\ respLoc'.statusCode = 200)
          => /\ Len(dbFile') = Len(dbFile)
             /\ \A i \in 1..Len(dbFile) :
                  IF dbFile[i].id = req'.id
                  THEN SameButTextAndUpdatedAt(dbFile[i], dbFile'[i])
                  ELSE dbFile'[i] = dbFile[i]]_vars

\* Both variants have answered 200 to a PUT on a stored annotation that
\* has a camera position and a point cloud id, while another annotation and
\* a point cloud are stored.
C25_Witness ==
  /\ IsRoute(req, "PUT", AnnIdPath)
  /\ respNet.statusCode = 200 /\ respLoc.statusCode = 200
  /\ req.id.s \in DOMAIN born
  /\ annTable[req.id.s].createdAt = born[req.id.s]
  /\ annTable[req.id.s].position = Pos(0, -5, 7)
  /\ annTable[req.id.s].text = TextOf(req)
  /\ Cardinality(DOMAIN annTable) >= 2
  /\ Len(dbFile) >= 2
  /\ DOMAIN pcTable # {}

-----------------------------------------------------------------------------
(* C26 *)

\* The record is a complete annotation: an id of UUID shape, a position with
\* numeric x, y and z, a createdAt, and a text of at most 256 UTF-8 bytes.
CompleteAnnotation(record) ==
  /\ record.id.t = "string" /\ IsCanonicalUuid(record.id.s)
  /\ record.position.t = "object"
  /\ \A c \in {"x", "y", "z"} : Get(record.position, c).t = "number"
  /\ record.createdAt.t = "date"
  /\ record.text.t = "string" /\ Utf8Length(record.text.s) <= 256

\* C26: every record of the annotation table and of the local file is a
\* complete annotation.
C26_EveryRecordIsComplete ==
  /\ \A k \in DOMAIN annTable : CompleteAnnotation(annTable[k])
  /\ \A i \in 1..Len(dbFile) : CompleteAnnotation(dbFile[i])

\* The Lambda's half of C26.
C26_NetRecordsComplete ==
  \A k \in DOMAIN annTable : CompleteAnnotation(annTable[k])

\* The local server's half of C26.
C26_LocalRecordsComplete ==
  \A i \in 1..Len(dbFile) : CompleteAnnotation(dbFile[i])

\* Every record that POST /annotations has just stored is complete.
C26_CreatedRecordsComplete ==
  (IsRoute(req, "POST", AnnPath) /\ respNet.statusCode = 201 /\ respLoc.statusCode = 201)
    => /\ CompleteAnnotation(BodyOf(respNet))
       /\ CompleteAnnotation(BodyOf(respLoc))

-----------------------------------------------------------------------------
(* C27 *)

\* The request is a PUT whose body is a JSON object without a text.
OmitsText(request) ==
  IsRoute(request, "PUT", AnnIdPath) /\ HasObjectBody(request) /\ TextOf(request) = Undef

\* C27: a PUT without text on a stored annotation, answered 200, leaves the
\* text of the annotation as it was and sets its updatedAt, in both
\* variants.
C27_UpdateWithoutTextKeepsText ==
  [][/\ (OmitsText(req') /\ respNet'.statusCode = 200 /\ req'.id.s \in DOMAIN annTable)
          => /\ annTable'[req'.id.s].text = annTable[req'.id.s].text
             /\ annTable'[req'.id.s].updatedAt = Date(clock')
     /\ (OmitsText(req') /\ respLoc'.statusCode = 200)
          => \A i \in 1..Len(dbFile) :
               dbFile[i].id = req'.id
                 => /\ dbFile'[i].text = dbFile[i].text
                    /\ dbFile'[i].updatedAt = Date(clock')]_vars

\* The local server's half of C27.
C27_LocalUpdateWithoutTextKeepsText ==
  [][(OmitsText(req') /\ respLoc'.statusCode = 200)
       => \A i \in 1..Len(dbFile) :
            dbFile[i].id = req'.id
              => /\ dbFile'[i].text = dbFile[i].text
                 /\ dbFile'[i].updatedAt = Date(clock')]_vars

-----------------------------------------------------------------------------
(* C28 *)

\* C28: with no storage operation failing, a request whose body is absent
\* or is JSON text is answered 2xx, 400 or 404 by both variants, never 500.
C28_No500WithoutStorageFault ==
  (req # NoRequest /\ fault[1] = NoFault /\ req.body.kind \in {"json", "absent"})
    => /\ respNet.statusCode # 500
       /\ respLoc.statusCode # 500

\* The same for bodies that are JSON objects whose text, if any, is a string
\* or null.
C28_No500OnObjectsWithStringText ==
  (/\ req # NoRequest /\ fault[1] = NoFault
   /\ \/ req.body.kind = "absent"
      \/ HasObjectBody(req) /\ TextOf(req).t \in {"undefined", "null", "string"})
    => /\ respNet.statusCode # 500
       /\ respLoc.statusCode # 500

-----------------------------------------------------------------------------
(* C29 *)

\* The requests whose handler produced the data of the write in progress:
\* those queued behind the previous write if any, else those that started it.
WriteAuthors ==
  IF wCur = <<>> THEN {}
  ELSE IF wCur[1].resolves # {} THEN wCur[1].resolves ELSE wCur[1].direct

\* C29: local variant, requests interleaved.  When the write of DELETE
\* handlers replaces the file, the records that leave the file are those
\* the handlers were asked to delete, every other record stays as it was and
\* none appears.
C29_DeleteRemovesOnlyItsRecord ==
  [][(/\ wCur # <<>>
      /\ dbFile' # dbFile
      /\ \A j \in WriteAuthors : IsRoute(locReqs[j].request, "DELETE", AnnIdPath))
       => /\ \A i \in 1..Len(dbFile) :
               \/ \E k \in 1..Len(dbFile') : dbFile'[k] = dbFile[i]
               \/ \E j \in WriteAuthors : locReqs[j].request.id = dbFile[i].id
          /\ \A k \in 1..Len(dbFile') : \E i \in 1..Len(dbFile) : dbFile[i] = dbFile'[k]]_vars

\* Requests served one at a time: a DELETE answered 204 removes the record
\* with its id and no other, from its own store, in both variants.
C29_SequentialDeleteRemovesOnlyItsRecord ==
  [][/\ (IsRoute(req', "DELETE", AnnIdPath) /\ respNet'.statusCode = 204)
          => (annTable' = DdbDelete(annTable, req'.id.s) /\ req'.id.s \in DOMAIN annTable
              /\ pcTable' = pcTable)
     /\ (IsRoute(req', "DELETE", PcIdPath) /\ respNet'.statusCode = 204)
          => (pcTable' = DdbDelete(pcTable, req'.id.s) /\ req'.id.s \in DOMAIN pcTable
              /\ annTable' = annTable)
     /\ (IsRoute(req', "DELETE", AnnIdPath) /\ respLoc'.statusCode = 204)
          => /\ Len(dbFile') = Len(dbFile) - 1
             /\ \A i \in 1..Len(dbFile) :
                  IF dbFile[i].id = req'.id
                  THEN \A k \in 1..Len(dbFile') : dbFile'[k].id # req'.id
                  ELSE \E k \in 1..Len(dbFile') : dbFile'[k] = dbFile[i]]_vars

-----------------------------------------------------------------------------
(* C30 *)

\* The records of a table, and of the file.
AllOf(table) == {table[k] : k \in DOMAIN table}

\* The request names no pointCloudId query parameter.
NoFilter(request) == request.pointCloudId = Undef

\* C30: GET /annotations without a pointCloudId query parameter, and GET
\* /pointclouds, are answered 200 with every stored record of that kind and
\* nothing else, and leave the tables and the file as they were, sending no
\* write; the local GET /annotations likewise answers the whole file.
C30_ListAllReturnsEveryRecord ==
  [][/\ (IsRoute(req', "GET", AnnPath) /\ NoFilter(req'))
          => /\ respNet'.statusCode = 200
             /\ BodyOf(respNet') = Arr(AllOf(annTable))
             /\ ~IssuesWrite(respNet')
             /\ respLoc'.statusCode = 200
             /\ BodyOf(respLoc').items = dbFile
             /\ ~IssuesWrite(respLoc')
             /\ annTable' = annTable /\ pcTable' = pcTable /\ dbFile' = dbFile
     /\ IsRoute(req', "GET", PcPath)
          => /\ respNet'.statusCode = 200
             /\ BodyOf(respNet') = Arr(AllOf(pcTable))
             /\ ~IssuesWrite(respNet')
             /\ annTable' = annTable /\ pcTable' = pcTable /\ dbFile' = dbFile]_vars

\* C30 witness: an unfiltered GET /annotations answered with two annotations
\* of different point clouds while a point cloud is stored too.
C30_Witness ==
  /\ IsRoute(req, "GET", AnnPath)
  /\ NoFilter(req)
  /\ respNet.statusCode = 200
  /\ Cardinality(BodyOf(respNet).items) = 2
  /\ \E x, y \in BodyOf(respNet).items : x.pointCloudId # y.pointCloudId
  /\ Len(BodyOf(respLoc).items) = 2
  /\ DOMAIN pcTable # {}

\* A GET /pointclouds answered with the stored point cloud while
\* annotations are stored.
C30_PointCloudsListed ==
  /\ IsRoute(req, "GET", PcPath)
  /\ respNet.statusCode = 200
  /\ BodyOf(respNet).items # {}
  /\ DOMAIN annTable # {}

-----------------------------------------------------------------------------
(* C31 *)

\* saveAnnotation resumes for the request i in this step.
Resumes(i) ==
  /\ i \in DOMAIN client.flights
  /\ client.flights[i].state = "answered"
  /\ client'.flights[i].state = "resumed"

\* The entries of the map other than key are the same in both maps.
OthersUnchanged(old, new, key) ==
  /\ DOMAIN new \ {key} = DOMAIN old \ {key}
  /\ \A k \in DOMAIN old \ {key} : new[k] = old[k]

\* C31: when saveAnnotation resumes for an update of annotation X to text T
\* that the server accepted, the annotations map holds text T for X
\* afterwards and no other entry of the map is added, removed or changed.
C31_AcceptedEditIsRecorded ==
  [][\A i \in DOMAIN client.flights :
       (/\ Resumes(i)
        /\ client.flights[i].edit
        /\ client.flights[i].ok
        /\ client.flights[i].id \in DOMAIN client.annotations)
       => /\ client.flights[i].id \in DOMAIN client'.annotations
          /\ Get(client'.annotations[client.flights[i].id], "text")
               = Str(client.flights[i].text)
          /\ OthersUnchanged(client.annotations, client'.annotations,
                             client.flights[i].id)]_vars

\* The same when the modal still shows X as saveAnnotation resumes.
C31_EditRecordedWhileModalShowsIt ==
  [][\A i \in DOMAIN client.flights :
       (/\ Resumes(i)
        /\ client.flights[i].edit
        /\ client.flights[i].ok
        /\ client.flights[i].id \in DOMAIN client.annotations
        /\ Get(client.currentAnnotation, "id") = client.flights[i].id)
       => /\ Get(client'.annotations[client.flights[i].id], "text")
               = Str(client.flights[i].text)
          /\ OthersUnchanged(client.annotations, client'.annotations,
                             client.flights[i].id)]_vars

\* An accepted edit whose answer arrived after the modal was closed: the map
\* keeps the old text of X.
C31_EditLostAfterClose ==
  \E i \in DOMAIN client.flights :
    /\ client.flights[i].state = "resumed"
    /\ client.flights[i].edit
    /\ client.flights[i].ok
    /\ client.status = "Failed to save"
    /\ client.flights[i].id \in DOMAIN client.annotations
    /\ Get(client.annotations[client.flights[i].id], "text") # Str(client.flights[i].text)

\* An accepted edit whose answer arrived while the modal for a new
\* annotation was open: the map has an entry under the key undefined.
C31_EntryUnderUndefined == Undef \in DOMAIN client.annotations

-----------------------------------------------------------------------------
(* C32 *)

\* This step opens the edit modal for an annotation of the map.
OpensEdit ==
  /\ client.modal = "hidden"
  /\ client'.modal = "open"
  /\ client'.isEditMode
  /\ Get(client'.currentAnnotation, "id") \in DOMAIN client.annotations

\* The text the map holds for the annotation the modal is opened for.
SavedText ==
  Or(Get(client.annotations[Get(client'.currentAnnotation, "id")], "text"), Str(<<>>)).s

\* C32: opening the edit modal for annotation X, from the sidebar or from
\* its marker, pre-fills the text area with the text the annotations map
\* holds for X.
C32_EditModalShowsSavedText ==
  [][OpensEdit => client'.value = SavedText]_vars

\* The same for the openings from the sidebar.
C32_SidebarShowsSavedText ==
  [][(OpensEdit /\ client'.openedFrom = "sidebar") => client'.value = SavedText]_vars

\* The edit modal opened from the marker of an annotation whose edit the
\* client recorded: the text area shows the text from before the edit.
C32_MarkerShowsOldText ==
  /\ client.modal = "open"
  /\ client.isEditMode
  /\ client.openedFrom = "marker"
  /\ client.status = "Note updated"
  /\ Get(client.currentAnnotation, "id") \in DOMAIN client.annotations
  /\ client.annotations[Get(client.currentAnnotation, "id")].text = Str(TextHi)
  /\ client.currentAnnotation.text # Str(TextHi)
  /\ client.value = <<>>

-----------------------------------------------------------------------------
(* C33 *)

\* The creates sent from the opening of the 'New Observation' modal that is
\* the latest, a create that failed and may be tried again aside.
PostsOfOpening ==
  {i \in DOMAIN client.flights :
     /\ client.openedFrom = "pointcloud"
     /\ ~client.flights[i].edit
     /\ client.flights[i].opening = "current"
     /\ ~(client.flights[i].state = "resumed" /\ ~client.flights[i].ok)}

\* The entries of the map that these creates added.
EntriesOfOpening ==
  {k \in DOMAIN client.annotations :
     \E i \in PostsOfOpening : /\ client.flights[i].state = "resumed"
                               /\ Get(client.flights[i].answer, "id") = k}

\* C33: one opening of the 'New Observation' modal results in at most one
\* POST /annotations and at most one new entry of the annotations map.
C33_OneOpeningOnePost ==
  /\ Cardinality(PostsOfOpening) <= 1
  /\ Cardinality(EntriesOfOpening) <= 1

\* Each create the server accepted adds exactly the entry of its answer.
C33_AcceptedCreateAddsOneEntry ==
  [][\A i \in DOMAIN client.flights :
       (Resumes(i) /\ ~client.flights[i].edit /\ client.flights[i].ok)
       => /\ Get(client.flights[i].answer, "id") \notin DOMAIN client.annotations
          /\ client'.annotations[Get(client.flights[i].answer, "id")]
               = client.flights[i].answer
          /\ OthersUnchanged(client.annotations, client'.annotations,
                             Get(client.flights[i].answer, "id"))]_vars

\* Two clicks on Save in one opening: two annotations on the server and two
\* entries in the map.
C33_TwoEntriesFromOneOpening ==
  /\ Cardinality(EntriesOfOpening) = 2
  /\ client.saves = 2
  /\ client.modal = "hidden"
  /\ IF client.USE_LOCAL_API THEN Len(dbFile) = 2
     ELSE Cardinality(DOMAIN annTable) = 2

=============================================================================
